---- MODULE Spec2Model ----
(***************************************************************************)
(* MedSwift dispatch engine: the trip lifecycle (service layer in          *)
(* trip.dto.ts, controller layer in trip.controller.ts), the ambulance     *)
(* status/location handlers and the Redis GEO index "ambulance_locations". *)
(*                                                                         *)
(* Every handler is an async function; each `await` on the durable store   *)
(* or on Redis is a point where another request may run, so a handler is   *)
(* a sequence of atomic steps (one per store access) and req[p].pc is the  *)
(* position of request p in its handler.                                   *)
(*                                                                         *)
(* Locations are modelled by their distance in km from the pickup point.   *)
(* Timestamps are modelled by whether the field is set.  Of a timeline     *)
(* entry {status, timestamp, location, updatedBy} the status is kept.      *)
(***************************************************************************)
EXTENDS Integers, Sequences, FiniteSets, TLC

\* A request that appends to the timeline is started only while the persisted
\* timeline is shorter than this.
MaxTimeline == 6
\* updateTripLocation is started only while the persisted timeline is shorter
\* than this.
MaxTracked == 3

Ambulances == {"a1", "a2"}
Hospitals == {"h1", "h2"}
Procs == {1, 2}
\* Where each ambulance is stationed: its distance (km) from the pickup point.
Place == [a \in Ambulances |-> IF a = "a1" THEN 3 ELSE 12]
Locs == {Place[a] : a \in Ambulances}
NONE == "none"

VARIABLES
  trips,      \* durable store, Trip collection: TripIds -> trip document
  ambStatus,  \* durable store, Ambulance.status
  ambLoc,     \* durable store, Ambulance.location
  geo,        \* Redis GEO key ambulance_locations: member -> position
  req,        \* the requests in flight: Procs -> position and locals of the handler
  history,    \* history variable: the statuses each trip was given by the
              \* transitions persisted so far, in order
  accepts,    \* history variable: per trip, the accept requests
              \* (assignAmbulanceToTrip) that persisted ACCEPTED
  concurrency, \* how many requests the server has in flight at most (fixed at start)
  hospitals,  \* durable store, Hospital collection: inventory of each hospital
  hospitalGeo, \* Redis GEO key hospital_locations: member -> position
  lookup,     \* the last call of findNearbyAmbulances / findNearbyHospitals:
              \* its arguments and what it returned
  rooms,      \* socket.io: the connections in room trip:<id>
  participants, \* Redis set trip_participants:<id>
  sock,       \* the socket event handler each connection is running
  conn,       \* the connections that passed the handshake
  presence,   \* Redis hash socket:mapping: the connection ids it holds
  reverse,    \* Redis keys socket:<role>:<id>: per identity, the connection
              \* id stored (NONE: no key)
  cache,      \* Redis keys location:<role>:<tripId>, with their age
  left        \* per trip, the connections whose last room event was leave_trip

vars == <<trips, ambStatus, ambLoc, geo, req, history, accepts, concurrency,
          hospitals, hospitalGeo, lookup, rooms, participants, sock, conn,
          presence, reverse, cache, left>>

\* The ids of the trip documents the store has room for, and the ids of the
\* connections a client may open.
TripIds == DOMAIN trips
Sockets == DOMAIN sock

\* What the HTTP handlers leave alone.
sockets == <<rooms, participants, sock, conn, presence, reverse, cache, left>>

\* What the trip and ambulance handlers leave alone.
search == <<hospitals, hospitalGeo, lookup>>

TripStatus ==
  {"SEARCHING", "ACCEPTED", "ARRIVED_PICKUP", "EN_ROUTE_HOSPITAL",
   "ARRIVED_HOSPITAL", "COMPLETED", "CANCELLED"}

AmbulanceStatus == {"ready", "on-trip", "offline"}

\* The slot of the Trip collection before the trip document is created.
NoTrip ==
  [exists |-> FALSE, status |-> NONE, ambulanceId |-> NONE,
   destinationHospitalId |-> NONE, dropoff |-> FALSE,
   acceptedAt |-> FALSE, arrivedAtPickup |-> FALSE,
   arrivedAtHospital |-> FALSE, completedAt |-> FALSE, timeline |-> <<>>]

\* A timeline entry {status, timestamp, location, updatedBy}.
Entry(status) == [status |-> status]

Last(s) == s[Len(s)]

Min(a, b) == IF a < b THEN a ELSE b

(***************************************************************************)
(* Mongoose document persistence.  save() sends one atomic update that     *)
(* $sets the paths modified on the in-memory document and $pushes the      *)
(* entries pushed onto its timeline array; it carries no condition on the  *)
(* document's current status.                                              *)
(***************************************************************************)
ApplySet(doc, upd) ==
  [f \in DOMAIN doc |-> IF f \in DOMAIN upd THEN upd[f] ELSE doc[f]]

\* Variant of save that writes the pushed entries in front of the persisted ones.
save_unshift(doc, upd, pushed) ==
  [ApplySet(doc, upd) EXCEPT !.timeline = pushed \o doc.timeline]

\* Variant of save that loses the pushed timeline entries.
save_withoutPush(doc, upd, pushed) == ApplySet(doc, upd)

save(doc, upd, pushed) ==
  [ApplySet(doc, upd) EXCEPT !.timeline = doc.timeline \o pushed]

(***************************************************************************)
(* Redis GEO index                                                         *)
(***************************************************************************)
\* The index is the set of its <<member, position>> pairs, one per member.
zRem(g, a) == {e \in g : e[1] # a}

geoAdd(g, a, l) == zRem(g, a) \cup {<<a, l>>}

Members(g) == {e[1] : e \in g}

Position(g, a) == (CHOOSE e \in g : e[1] = a)[2]

\* syncAmbulancetoRedis: ready ambulances with a location are added, all
\* others removed.  `doc` is the ambulance document the caller holds.
syncAmbulancetoRedis(g, a, doc) ==
  IF doc.status = "ready" /\ doc.location \in Locs
  THEN geoAdd(g, a, doc.location)
  ELSE zRem(g, a)

removeAmbulanceFromRedis(g, a) == zRem(g, a)

\* GEOSEARCH ... ASC COUNT limit: the members within the radius, nearest
\* first, cut to `limit`.  Redis fixes no order among equal distances.
geoSearchWith(g, radius, limit) ==
  LET inside == {a \in Members(g) : Position(g, a) <= radius}
      n == Cardinality(inside)
      orders == {s \in [1..n -> inside] :
                   /\ \A i, j \in 1..n : i # j => s[i] # s[j]
                   /\ \A i, j \in 1..n : i < j => Position(g, s[i]) <= Position(g, s[j])}
  IN {SubSeq(s, 1, Min(limit, n)) : s \in orders}

searchRadii_unordered == <<5, 17, 10, 30>>

searchRadii == <<5, 10, 17, 30>>

readyAmbulances_unchecked(results, st) == results

\* Ambulance.find({_id: {$in: ids}, status: "ready"}), then the index results
\* mapped to the documents found, in index order, the others dropped.
readyAmbulances(results, st) == SelectSeq(results, LAMBDA a : st[a] = "ready")

RECURSIVE findNearbyFrom_rethrow(_, _, _, _, _)
findNearbyFrom_rethrow(i, g, st, limit, down) ==
  IF i > Len(searchRadii) THEN {[radius |-> 0, found |-> <<>>, threw |-> FALSE]}
  ELSE IF searchRadii[i] \in down
       THEN {[radius |-> searchRadii[i], found |-> <<>>, threw |-> TRUE]}
  ELSE UNION {
         LET nearbyAmbulances == readyAmbulances(results, st)
         IN IF nearbyAmbulances # <<>>
            THEN {[radius |-> searchRadii[i], found |-> nearbyAmbulances,
                   threw |-> FALSE]}
            ELSE findNearbyFrom_rethrow(i + 1, g, st, limit, down)
         : results \in geoSearchWith(g, searchRadii[i], limit)}

\* One lookup's outcome: the radius of the pass that returned (0: every
\* radius exhausted), the ids returned, in order, and whether the call threw
\* instead of returning.
RECURSIVE findNearbyFrom(_, _, _, _, _)
\* The loop over searchRadii from the i-th radius on.  `down` holds the radii
\* at which the Redis query throws: the error is caught and logged, and the
\* loop goes on with the next radius.
findNearbyFrom(i, g, st, limit, down) ==
  IF i > Len(searchRadii) THEN {[radius |-> 0, found |-> <<>>, threw |-> FALSE]}
  ELSE IF searchRadii[i] \in down THEN findNearbyFrom(i + 1, g, st, limit, down)
  ELSE UNION {
         LET nearbyAmbulances == readyAmbulances(results, st)
         IN IF nearbyAmbulances # <<>>
            THEN {[radius |-> searchRadii[i], found |-> nearbyAmbulances,
                   threw |-> FALSE]}
            ELSE findNearbyFrom(i + 1, g, st, limit, down)
         : results \in geoSearchWith(g, searchRadii[i], limit)}

\* The possible results of findNearbyAmbulances while Redis answers:
\* sequences of ambulance ids.
findNearbyAmbulances(g, st, limit) ==
  {r.found : r \in findNearbyFrom(1, g, st, limit, {})}

\* distance: Math.round(parseFloat(result.distance) * 1000), in meters
distance(g, a) == Position(g, a) * 1000

\* The blood types a caller may name, and the keys of inventory.bloodStock.
BloodTypes == {"O-", "O+"}
BloodKeys == {"O_negative", "O_positive"}

\* bloodType.replace("+", "_positive").replace("-", "_negative"): a key that
\* is already mapped has no sign left and stays as it is.
bloodKey(bloodType) ==
  CASE bloodType = "O-" -> "O_negative"
    [] bloodType = "O+" -> "O_positive"
    [] OTHER -> bloodType

MatchesQuery_withoutStock(doc, bloodType, requireBeds) ==
  /\ doc.exists
  /\ requireBeds => doc.beds > 0

\* The Hospital.find query: the document exists and, when the filter is set,
\* inventory.bloodStock.<key> > 0 and inventory.beds.available > 0.
MatchesQuery(doc, bloodType, requireBeds) ==
  /\ doc.exists
  /\ bloodType # NONE => doc[bloodKey(bloodType)] > 0
  /\ requireBeds => doc.beds > 0

RECURSIVE findNearbyHospitalsFrom(_, _, _, _, _, _, _)
\* The loop of findNearbyHospitals from the i-th radius on: GEOSEARCH with
\* COUNT limit * 2, the query with the inventory filters, slice(0, limit).
\* `down` holds the radii at which the pass throws (Redis or the store).
findNearbyHospitalsFrom(i, g, docs, limit, bloodType, requireBeds, down) ==
  IF i > Len(searchRadii) THEN {[radius |-> 0, found |-> <<>>, threw |-> FALSE]}
  ELSE IF searchRadii[i] \in down
       THEN findNearbyHospitalsFrom(i + 1, g, docs, limit, bloodType, requireBeds, down)
  ELSE UNION {
         LET matched == SelectSeq(results,
                          LAMBDA h : MatchesQuery(docs[h], bloodType, requireBeds))
             nearbyHospitals == SubSeq(matched, 1, Min(limit, Len(matched)))
         IN IF nearbyHospitals # <<>>
            THEN {[radius |-> searchRadii[i], found |-> nearbyHospitals,
                   threw |-> FALSE]}
            ELSE findNearbyHospitalsFrom(i + 1, g, docs, limit, bloodType,
                                         requireBeds, down)
         : results \in geoSearchWith(g, searchRadii[i], limit * 2)}

findNearbyHospitals(g, docs, limit, bloodType, requireBeds, down) ==
  findNearbyHospitalsFrom(1, g, docs, limit, bloodType, requireBeds, down)

\* limit passed by createTripRequest (service) and by createTrip (controller)
ServiceLimit == 5
ControllerLimit == 10

(***************************************************************************)
(* Trip state machine (service layer)                                      *)
(***************************************************************************)
\* Variant of validTransitions that also lets a SEARCHING trip skip ahead.
validTransitions_skipAhead(s) ==
  CASE s = "SEARCHING" -> {"ACCEPTED", "ARRIVED_PICKUP", "CANCELLED"}
    [] s = "ACCEPTED" -> {"ARRIVED_PICKUP", "CANCELLED"}
    [] s = "ARRIVED_PICKUP" -> {"EN_ROUTE_HOSPITAL", "CANCELLED"}
    [] s = "EN_ROUTE_HOSPITAL" -> {"ARRIVED_HOSPITAL", "CANCELLED"}
    [] s = "ARRIVED_HOSPITAL" -> {"COMPLETED", "CANCELLED"}
    [] OTHER -> {}

validTransitions(s) ==
  CASE s = "SEARCHING" -> {"ACCEPTED", "CANCELLED"}
    [] s = "ACCEPTED" -> {"ARRIVED_PICKUP", "CANCELLED"}
    [] s = "ARRIVED_PICKUP" -> {"EN_ROUTE_HOSPITAL", "CANCELLED"}
    [] s = "EN_ROUTE_HOSPITAL" -> {"ARRIVED_HOSPITAL", "CANCELLED"}
    [] s = "ARRIVED_HOSPITAL" -> {"COMPLETED", "CANCELLED"}
    [] OTHER -> {}

\* TRUE when validateStatusTransition returns, FALSE when it throws.
validateStatusTransition(currentStatus, newStatus) ==
  newStatus \in validTransitions(currentStatus)

\* The fields updateTripStatus assigns to the document.
updateData(status, ambulanceId) ==
  CASE status = "ACCEPTED" ->
         [status |-> status, ambulanceId |-> ambulanceId, acceptedAt |-> TRUE]
    [] status = "ARRIVED_PICKUP" -> [status |-> status, arrivedAtPickup |-> TRUE]
    [] status = "ARRIVED_HOSPITAL" -> [status |-> status, arrivedAtHospital |-> TRUE]
    [] status = "COMPLETED" -> [status |-> status, completedAt |-> TRUE]
    [] OTHER -> [status |-> status]

(***************************************************************************)
(* Requests                                                                *)
(***************************************************************************)
Idle ==
  [op |-> "idle", pc |-> "idle", tripId |-> NONE, caller |-> NONE, amb |-> NONE,
   status |-> NONE, dStatus |-> NONE, dAmb |-> NONE, hosp |-> NONE,
   location |-> 0, redisUp |-> TRUE, result |-> NONE, emitted |-> <<>>]

\* A request of handler `op` as it arrives: trip id, caller, and the ambulance
\* and status it names (if any).
NewReq(op, t, caller, amb, status) ==
  [Idle EXCEPT !.op = op, !.tripId = t, !.caller = caller, !.amb = amb,
               !.status = status]

\* The handler moves on to step `pc`.
Goto(r, pc) == [r EXCEPT !.pc = pc]

\* The handler has responded: its locals are gone; the request (handler, trip,
\* ambulance and status named) and its result are kept until Respond.
Finished(r, result) ==
  [Idle EXCEPT !.op = r.op, !.pc = "done", !.tripId = r.tripId, !.amb = r.amb,
               !.status = r.status, !.result = result]

\* io.to(room).emit(name, ...): what a handler has published when it returns.
\* Rooms: user:<requester of the trip>, ambulance:<id>, trip:<id>,
\* ambulance-room, admin-room.
Event(room, name) == <<room, name>>
UserRoom == <<"user", "requester">>
AmbulanceRoom(a) == <<"ambulance", a>>
TripRoom(t) == <<"trip", t>>
AmbulanceBroadcastRoom == <<"ambulance-room", NONE>>
AdminRoom == <<"admin-room", NONE>>

Emitting(r, events) == [r EXCEPT !.emitted = events]

\* Sending the response is local to the request and touches no store: it is
\* taken as soon as the handler has finished, before any other step.
Responding ==
  \/ \E p \in Procs : req[p].pc = "done"
  \/ \E s \in DOMAIN sock : sock[s].pc = "done"

\* A request can arrive in slot p: the lowest free slot.
CanStart(p) ==
  /\ ~Responding
  /\ p <= concurrency
  /\ req[p].op = "idle"
  /\ IF p = 1 THEN TRUE ELSE req[p - 1].op # "idle"

\* Request p is at step `pc` of its handler and takes it now.
At(p, pc) == ~Responding /\ req[p].pc = pc

\* Bound on the timeline of the model's trip.
Room(t) == Len(trips[t].timeline) < MaxTimeline

\* The slot of the Hospital collection of a hospital that is not registered.
NoHospital == [exists |-> FALSE, O_negative |-> 0, O_positive |-> 0, beds |-> 0]

\* A registered hospital with stock and beds.
Stocked == [exists |-> TRUE, O_negative |-> 1, O_positive |-> 1, beds |-> 1]

\* A registered hospital with nothing left.
OutOfStock == [exists |-> TRUE, O_negative |-> 0, O_positive |-> 0, beds |-> 0]

\* No lookup made yet.
NoLookup ==
  [fn |-> NONE, limit |-> 0, down |-> {}, bloodType |-> NONE,
   requireBeds |-> FALSE, radius |-> 0, found |-> <<>>, threw |-> FALSE]

\* The connections: socketAuthMiddleware sets socket.userId and
\* socket.userRole from the token.  One connection per identity: the user who
\* requests the model's trip, another user, the ambulances, an admin; and a
\* second connection of the requester (another device or tab).
Requester == "requester"
Users == {Requester, "stranger"}
Admins == {"admin"}
Clients == Users \cup Admins \cup Ambulances
SecondDevice == "requester-2"

\* socket.userId and socket.userRole of connection s once it is authenticated.
userId(s) == IF s = SecondDevice THEN Requester ELSE s

userRole(s) ==
  IF s \in Ambulances THEN "ambulance"
  ELSE IF s = "admin" THEN "admin"
  ELSE "user"

\* The roles that store a location under location:<role>:<tripId>.
CacheRoles == {"user", "ambulance"}

\* A location key that is not set.
NoEntry == [present |-> FALSE, userId |-> NONE, location |-> 0, age |-> 0]

\* A connection running no handler.
NoHandler ==
  [pc |-> "idle", event |-> NONE, tripId |-> NONE,
   doc |-> [exists |-> FALSE, userId |-> NONE, ambulanceId |-> NONE],
   token |-> [kind |-> NONE, id |-> NONE, role |-> NONE],
   targetRole |-> NONE, key |-> NONE, location |-> NoEntry,
   socketIds |-> {}, participants |-> {}, count |-> 0,
   note |-> NONE, result |-> NONE, emitted |-> <<>>]

\* No connection has joined a room.
NoSockets ==
  /\ rooms = [t \in TripIds |-> {}]
  /\ participants = [t \in TripIds |-> {}]
  /\ sock = [s \in Clients |-> NoHandler]
  /\ cache = [r \in CacheRoles |-> [t \in TripIds |-> NoEntry]]
  /\ left = [t \in TripIds |-> {}]

\* The connections of `open` have passed the handshake and are registered in
\* socket:mapping; the others are closed.
Connected(open) ==
  /\ conn = [s \in Sockets |-> s \in open]
  /\ presence = open
  /\ reverse = [i \in Clients |-> IF i \in open THEN i ELSE NONE]

\* No connection is open.
NoConnections == Connected({})

\* The trip ids of a store with room for one document, and for two.
FirstTrip == {"t1"}
TwoTrips == {"t1", "t2"}

\* The stores when the server starts: no trip (room for the documents `ids`);
\* the ambulances of `fleet` are
\* registered (registerAmbulance: status "offline" by default, not indexed),
\* the others have no document.
Stores(ids, fleet, n) ==
  /\ trips = [t \in ids |-> NoTrip]
  /\ ambStatus = [a \in Ambulances |-> IF a \in fleet THEN "offline" ELSE NONE]
  /\ ambLoc = Place
  /\ geo = {}
  /\ req = [p \in Procs |-> Idle]
  /\ history = [t \in TripIds |-> <<>>]
  /\ accepts = [t \in TripIds |-> 0]
  /\ concurrency = n
  /\ hospitals = [h \in Hospitals |-> IF h = "h1" THEN Stocked ELSE NoHospital]
  /\ hospitalGeo = {<<"h1", 4>>}
  /\ lookup = NoLookup

InitWith(fleet, n) == Stores(FirstTrip, fleet, n) /\ NoSockets /\ NoConnections

\* One ambulance registered, two requests in flight at most.
Init == InitWith({"a1"}, 2)

\* The whole fleet registered, one request at a time.
InitFleet == InitWith(Ambulances, 1)

(***************************************************************************)
(* Ambulance handlers (ambulance.controller.ts, sockets.infra.ts,          *)
(* location.events.ts)                                                     *)
(***************************************************************************)
\* The ambulance handlers below await the durable write and then the index
\* write; each is taken as one step.  They answer 401/404 for an ambulance
\* that has no document, without touching a store.

\* updateAmbulanceStatus: Ambulance.findByIdAndUpdate(id, {status}, {new: true}),
\* then syncAmbulancetoRedis(ambulance)
updateAmbulanceStatus(a, status) ==
  /\ ~Responding
  /\ ambStatus[a] # NONE
  /\ ambStatus' = [ambStatus EXCEPT ![a] = status]
  /\ geo' = syncAmbulancetoRedis(geo, a, [status |-> status, location |-> ambLoc[a]])
  /\ UNCHANGED <<trips, ambLoc, req, history, accepts, concurrency, search, sockets>>

\* syncAmbulancetoRedis while Redis answers (`up`) or not: a command that
\* fails leaves the index as it was.
syncWhen(up, g, a, doc) == IF up THEN syncAmbulancetoRedis(g, a, doc) ELSE g

syncThrows_rethrow(up) == ~up

\* The try/catch of syncAmbulancetoRedis logs a Redis error: nothing is thrown
\* to the caller.
syncThrows(up) == FALSE

\* updateAmbulanceStatus with its response.  notifyAmbulanceStatusChange,
\* called after the sync, catches its own errors and changes no store.
updateAmbulanceStatus_http(p, a, status, up) ==
  /\ CanStart(p)
  /\ ambStatus[a] # NONE
  /\ ambStatus' = [ambStatus EXCEPT ![a] = status]
  /\ geo' = syncWhen(up, geo, a, [status |-> status, location |-> ambLoc[a]])
  /\ req' = [req EXCEPT ![p] =
       [Finished(NewReq("updateAmbulanceStatus", NONE, NONE, a, status),
                 IF syncThrows(up) THEN "500" ELSE "200")
          EXCEPT !.redisUp = up]]
  /\ UNCHANGED <<trips, ambLoc, history, accepts, concurrency, search, sockets>>

\* getIO() of src/config/socket.ts, the module sockets.infra.ts imports it
\* from, finds a hub.  That module's initializeSocket is never called: index.ts
\* initialises the hub of shared/infra/sockets/socket.config.ts.
hubInitialized == FALSE

\* updateAmbulanceLocation -> broadcastAmbulanceLocation: getIO(), then
\* Ambulance.findByIdAndUpdate(id, {"location.coordinates": location}, {new: true}),
\* syncAmbulancetoRedis(ambulance) and, on an active trip,
\* io.to(`trip:${tripId}`).emit("ambulance:location:changed").  An error is
\* logged and thrown again, and the request is answered 500.
updateAmbulanceLocation(p, a, location, up) ==
  /\ CanStart(p)
  /\ ambStatus[a] # NONE
  /\ LET r == [NewReq("updateAmbulanceLocation", NONE, NONE, a, NONE)
                 EXCEPT !.location = location, !.redisUp = up]
         done(result) == [Finished(r, result) EXCEPT !.location = location,
                                                     !.redisUp = up]
     IN IF ~hubInitialized
        THEN /\ req' = [req EXCEPT ![p] = done("500")]
             /\ UNCHANGED <<ambLoc, geo>>
        ELSE /\ ambLoc' = [ambLoc EXCEPT ![a] = location]
             /\ geo' = syncWhen(up, geo, a,
                         [status |-> ambStatus[a], location |-> location])
             /\ req' = [req EXCEPT ![p] =
                  Emitting(done(IF syncThrows(up) THEN "500" ELSE "200"),
                    [i \in 1..Cardinality({t \in TripIds :
                        /\ trips[t].exists
                        /\ trips[t].ambulanceId = a
                        /\ trips[t].status \in
                             {"ACCEPTED", "ARRIVED_PICKUP", "EN_ROUTE_HOSPITAL"}}) |->
                       Event(TripRoom(CHOOSE t \in TripIds : trips[t].ambulanceId = a),
                             "ambulance:location:changed")])]
  /\ UNCHANGED <<trips, ambStatus, history, accepts, concurrency, search, sockets>>

\* loginAmbulance: Ambulance.findOne({driverPhone}), then
\* syncAmbulancetoRedis(ambulance)
loginAmbulance(a) ==
  /\ ~Responding
  /\ ambStatus[a] # NONE
  /\ geo' = syncAmbulancetoRedis(geo, a, [status |-> ambStatus[a], location |-> ambLoc[a]])
  /\ UNCHANGED <<trips, ambStatus, ambLoc, req, history, accepts, concurrency, search, sockets>>

\* loginAmbulance with its response.
loginAmbulance_http(p, a, up) ==
  /\ CanStart(p)
  /\ ambStatus[a] # NONE
  /\ geo' = syncWhen(up, geo, a, [status |-> ambStatus[a], location |-> ambLoc[a]])
  /\ req' = [req EXCEPT ![p] =
       [Finished(NewReq("loginAmbulance", NONE, NONE, a, NONE),
                 IF syncThrows(up) THEN "500" ELSE "200")
          EXCEPT !.redisUp = up]]
  /\ UNCHANGED <<trips, ambStatus, ambLoc, history, accepts, concurrency, search, sockets>>

\* The trip logoutAmbulance looks for: Trip.findOne({ambulanceId, status: {$in: ...}})
activeTrip(a) ==
  \E t \in TripIds :
    /\ trips[t].exists
    /\ trips[t].ambulanceId = a
    /\ trips[t].status \in {"ACCEPTED", "ARRIVED_PICKUP", "EN_ROUTE_HOSPITAL"}

\* logoutAmbulance: refused during an active trip, else the ambulance leaves
\* the index; its durable status is not changed.
logoutAmbulance(a) ==
  /\ ~Responding
  /\ ambStatus[a] # NONE
  /\ ~activeTrip(a)
  /\ geo' = removeAmbulanceFromRedis(geo, a)
  /\ UNCHANGED <<trips, ambStatus, ambLoc, req, history, accepts, concurrency, search, sockets>>

(***************************************************************************)
(* Trip service (trip.dto.ts)                                              *)
(***************************************************************************)
\* A trip document as createTripRequest / createTrip build it.
NewTrip(status, ambulanceId, hospital, timeline) ==
  [NoTrip EXCEPT !.exists = TRUE, !.status = status,
                 !.ambulanceId = ambulanceId,
                 !.acceptedAt = (status = "ACCEPTED"),
                 !.destinationHospitalId = hospital,
                 !.dropoff = (hospital # NONE),
                 !.timeline = timeline]

ActiveStatuses ==
  {"SEARCHING", "ACCEPTED", "ARRIVED_PICKUP", "EN_ROUTE_HOSPITAL",
   "ARRIVED_HOSPITAL"}

\* The model holds one document per trip id: a request that creates a trip
\* takes an id no other request in flight is creating.
Creating(t) == \E q \in Procs : /\ req[q].op \in {"createTripRequest", "createTrip"}
                                /\ req[q].pc # "done"
                                /\ req[q].tripId = t

\* Trip.findOne({userId, status: {$in: [...]}}): the trips of the user that are
\* under way (every trip of the model is the requester's).
existingTrip == {x \in TripIds : trips[x].exists /\ trips[x].status \in ActiveStatuses}

\* createTripRequest, up to the ambulance and hospital lookups.  `hospital`
\* is what the hospital lookup yields (NONE: no hospital asked for or found).
\* t is the id of the trip found under way or, without one, the id the new
\* document will get.
createTripRequest(p, t, hospital) ==
  /\ CanStart(p)
  /\ hospital \in Hospitals => hospitals[hospital].exists
  /\ ~Creating(t)
  /\ LET r == NewReq("createTripRequest", t, NONE, NONE, NONE) IN
     IF existingTrip # {}
     THEN \* the user already has an active trip
          /\ t \in existingTrip
          /\ req' = [req EXCEPT ![p] = Finished(r, "409")]
     ELSE /\ ~trips[t].exists
          /\ \E nearbyAmbulances \in findNearbyAmbulances(geo, ambStatus, ServiceLimit) :
            req' = [req EXCEPT ![p] =
              IF Len(nearbyAmbulances) > 0
              THEN Goto([r EXCEPT !.amb = nearbyAmbulances[1], !.hosp = hospital],
                        "ctr_onTrip")
              ELSE Goto([r EXCEPT !.hosp = hospital], "ctr_saveSearching")]
  /\ UNCHANGED <<trips, ambStatus, ambLoc, geo, history, accepts, concurrency, search, sockets>>

\* await Ambulance.findByIdAndUpdate(ambulanceData._id, {status: "on-trip"})
createTripRequest_onTrip(p) ==
  /\ At(p, "ctr_onTrip")
  /\ ambStatus' = [ambStatus EXCEPT ![req[p].amb] = "on-trip"]
  /\ req' = [req EXCEPT ![p] = Goto(req[p], "ctr_saveAccepted")]
  /\ UNCHANGED <<trips, ambLoc, geo, history, accepts, concurrency, search, sockets>>

\* new Trip({status: "ACCEPTED", ...}); await trip.save()
createTripRequest_saveAccepted(p) ==
  /\ At(p, "ctr_saveAccepted")
  /\ trips' = [trips EXCEPT ![req[p].tripId] =
       NewTrip("ACCEPTED", req[p].amb, req[p].hosp,
               <<Entry("SEARCHING"), Entry("ACCEPTED")>>)]
  /\ req' = [req EXCEPT ![p] =
       Emitting(Finished(req[p], "201"),
                <<Event(UserRoom, "ambulance_assigned"),
                  Event(AmbulanceRoom(req[p].amb), "new_trip_assigned"),
                  Event(AdminRoom, "trip_auto_assigned")>>)]
  /\ history' = [history EXCEPT ![req[p].tripId] = <<"SEARCHING", "ACCEPTED">>]
  /\ UNCHANGED <<ambStatus, ambLoc, geo, accepts, concurrency, search, sockets>>

\* new Trip({status: "SEARCHING", ...}); await trip.save()
createTripRequest_saveSearching(p) ==
  /\ At(p, "ctr_saveSearching")
  /\ trips' = [trips EXCEPT ![req[p].tripId] =
       NewTrip("SEARCHING", NONE, req[p].hosp, <<Entry("SEARCHING")>>)]
  /\ req' = [req EXCEPT ![p] =
       Emitting(Finished(req[p], "201"),
                <<Event(AmbulanceBroadcastRoom, "new_trip_request")>>)]
  /\ history' = [history EXCEPT ![req[p].tripId] = <<"SEARCHING">>]
  /\ UNCHANGED <<ambStatus, ambLoc, geo, accepts, concurrency, search, sockets>>

\* The ambulanceId updateTripStatus is called with: assignAmbulanceToTrip
\* passes its ambulance, updateTripStatusByAmbulance passes none.
InputAmbulanceId(r) == IF r.op = "assignAmbulanceToTrip" THEN r.amb ELSE NONE

\* updateTripStatus up to (not including) trip.save(): the request after
\* Trip.findById returned `doc`.
\* Variant of updateTripStatus_read without the "Ambulance ID required" check.
updateTripStatus_read_noAmbulanceCheck(r, doc) ==
  IF ~doc.exists THEN Finished(r, "404")
  ELSE IF ~validateStatusTransition(doc.status, r.status)
  THEN Finished(r, "400 Invalid status transition")
  ELSE Goto(r, "uts_save")

updateTripStatus_read(r, doc) ==
  IF ~doc.exists THEN Finished(r, "404")
  ELSE IF ~validateStatusTransition(doc.status, r.status)
  THEN Finished(r, "400 Invalid status transition")
  ELSE IF r.status = "ACCEPTED" /\ InputAmbulanceId(r) = NONE
  THEN Finished(r, "400 Ambulance ID required")
  ELSE Goto(r, "uts_save")

\* updateTripStatusByAmbulance: PATCH /:tripId/status by ambulance a; a is not
\* checked against the trip and only names the author of the timeline entry.
updateTripStatusByAmbulance(p, t, a, status) ==
  /\ CanStart(p)
  /\ ambStatus[a] # NONE  \* verifyAmbulanceJWT
  /\ Room(t)
  /\ req' = [req EXCEPT ![p] =
       updateTripStatus_read(NewReq("updateTripStatus", t, NONE, NONE, status), trips[t])]
  /\ UNCHANGED <<trips, ambStatus, ambLoc, geo, history, accepts, concurrency, search, sockets>>

\* updateTripStatus: timeline.push, Object.assign(trip, updateData), trip.save()
updateTripStatus_save(p) ==
  /\ At(p, "uts_save")
  /\ LET r == req[p] IN
     trips' = [trips EXCEPT ![r.tripId] =
       save(@, updateData(r.status, InputAmbulanceId(r)),
            <<Entry(r.status)>>)]
  /\ req' = [req EXCEPT ![p] =
       Emitting(Finished(req[p], "200"),
                <<Event(TripRoom(req[p].tripId), "trip_status_updated")>>)]
  /\ history' = [history EXCEPT ![req[p].tripId] = Append(@, req[p].status)]
  /\ accepts' = [accepts EXCEPT ![req[p].tripId] =
       IF req[p].op = "assignAmbulanceToTrip" THEN @ + 1 ELSE @]
  /\ UNCHANGED <<ambStatus, ambLoc, geo, concurrency, search, sockets>>

\* acceptTrip -> assignAmbulanceToTrip: Trip.findById and the SEARCHING check.
assignAmbulanceToTrip(p, t, a) ==
  /\ CanStart(p)
  /\ ambStatus[a] # NONE  \* verifyAmbulanceJWT
  /\ Room(t)
  /\ LET r == NewReq("assignAmbulanceToTrip", t, NONE, a, "ACCEPTED") IN
     req' = [req EXCEPT ![p] =
       IF ~trips[t].exists THEN Finished(r, "404")
       ELSE IF trips[t].status # "SEARCHING" THEN Finished(r, "400 not SEARCHING")
       ELSE Goto(r, "assign_readAmb")]
  /\ UNCHANGED <<trips, ambStatus, ambLoc, geo, history, accepts, concurrency, search, sockets>>

\* Ambulance.findById and the ready check.
assignAmbulanceToTrip_readAmbulance(p) ==
  /\ At(p, "assign_readAmb")
  /\ req' = [req EXCEPT ![p] =
       IF ambStatus[req[p].amb] # "ready"
       THEN Finished(req[p], "400 not available")
       ELSE Goto(req[p], "assign_onTrip")]
  /\ UNCHANGED <<trips, ambStatus, ambLoc, geo, history, accepts, concurrency, search, sockets>>

\* await Ambulance.findByIdAndUpdate(ambulanceId, {status: "on-trip"})
assignAmbulanceToTrip_onTrip(p) ==
  /\ At(p, "assign_onTrip")
  /\ ambStatus' = [ambStatus EXCEPT ![req[p].amb] = "on-trip"]
  /\ req' = [req EXCEPT ![p] = Goto(req[p], "assign_uts")]
  /\ UNCHANGED <<trips, ambLoc, geo, history, accepts, concurrency, search, sockets>>

\* The call of updateTripStatus({tripId, status: "ACCEPTED", ambulanceId, ...})
assignAmbulanceToTrip_updateTripStatus(p) ==
  /\ At(p, "assign_uts")
  /\ req' = [req EXCEPT ![p] = updateTripStatus_read(req[p], trips[req[p].tripId])]
  /\ UNCHANGED <<trips, ambStatus, ambLoc, geo, history, accepts, concurrency, search, sockets>>

\* The terminal check shared by both cancel handlers.
IsTerminal(status) == status \in {"COMPLETED", "CANCELLED"}

\* cancelTripRequest -> cancelTrip (service): Trip.findById and the checks.
\* The caller is a user or an ambulance (verifyJWT); it is not checked against
\* the trip and only names the author of the timeline entry.
cancelTripRequest(p, t, caller) ==
  /\ CanStart(p)
  /\ caller \in Ambulances => ambStatus[caller] # NONE
  /\ Room(t)
  /\ LET r == NewReq("cancelTripRequest", t, NONE, NONE, "CANCELLED") IN
     req' = [req EXCEPT ![p] =
       IF ~trips[t].exists THEN Finished(r, "404")
       ELSE IF IsTerminal(trips[t].status) THEN Finished(r, "400 already terminal")
       ELSE Goto([r EXCEPT !.dAmb = trips[t].ambulanceId], "cancel_save")]
  /\ UNCHANGED <<trips, ambStatus, ambLoc, geo, history, accepts, concurrency, search, sockets>>

\* The handler returns after its save (and release): the service's cancelTrip
\* publishes trip_cancelled to the trip's room, the controllers publish nothing.
Returned(r) ==
  Emitting(Finished(r, "200"),
           IF r.op = "cancelTripRequest"
           THEN <<Event(TripRoom(r.tripId), "trip_cancelled")>>
           ELSE <<>>)

\* The step after a save that may release the ambulance of the document read.
AfterSave(r, release) ==
  IF r.dAmb # NONE THEN Goto(r, release) ELSE Returned(r)

\* trip.status = "CANCELLED"; trip.timeline.push(...); await trip.save()
cancelTripRequest_save(p) ==
  /\ At(p, "cancel_save")
  /\ trips' = [trips EXCEPT ![req[p].tripId] =
       save(@, [status |-> "CANCELLED"], <<Entry("CANCELLED")>>)]
  /\ req' = [req EXCEPT ![p] = AfterSave(req[p], "release")]
  /\ history' = [history EXCEPT ![req[p].tripId] = Append(@, "CANCELLED")]
  /\ UNCHANGED <<ambStatus, ambLoc, geo, accepts, concurrency, search, sockets>>

\* await Ambulance.findByIdAndUpdate(trip.ambulanceId, {status: "ready"}), as
\* cancelTrip (both layers) and completeTrip do after their save.
releaseAmbulance(p) ==
  /\ At(p, "release")
  /\ ambStatus' = [ambStatus EXCEPT ![req[p].dAmb] = "ready"]
  /\ req' = [req EXCEPT ![p] = Returned(req[p])]
  /\ UNCHANGED <<trips, ambLoc, geo, history, accepts, concurrency, search, sockets>>

(***************************************************************************)
(* Trip controller (trip.controller.ts)                                    *)
(***************************************************************************)
\* createTrip: Trip.create({status: "SEARCHING", timeline: [SEARCHING]})
createTrip(p, t) ==
  /\ CanStart(p)
  /\ ~Creating(t)
  /\ ~trips[t].exists
  /\ trips' = [trips EXCEPT ![t] =
       NewTrip("SEARCHING", NONE, NONE, <<Entry("SEARCHING")>>)]
  /\ req' = [req EXCEPT ![p] =
       Goto(NewReq("createTrip", t, NONE, NONE, NONE), "ct_find")]
  /\ history' = [history EXCEPT ![t] = <<"SEARCHING">>]
  /\ UNCHANGED <<ambStatus, ambLoc, geo, accepts, concurrency, search, sockets>>

\* findNearbyAmbulances(...); without a result the handler answers 200.
createTrip_find(p) ==
  /\ At(p, "ct_find")
  /\ \E nearbyAmbulances \in findNearbyAmbulances(geo, ambStatus, ControllerLimit) :
       req' = [req EXCEPT ![p] =
         IF Len(nearbyAmbulances) = 0
         THEN Finished(req[p], "200 waiting")
         ELSE Goto([req[p] EXCEPT !.amb = nearbyAmbulances[1]], "ct_saveAccepted")]
  /\ UNCHANGED <<trips, ambStatus, ambLoc, geo, history, accepts, concurrency, search, sockets>>

\* trip.status = "ACCEPTED"; trip.ambulanceId = ...; trip.acceptedAt = ...;
\* trip.timeline.push(ACCEPTED); await trip.save(); then the hospital lookup,
\* which yields `hospital` (NONE: no hospital found).
createTrip_saveAccepted(p, hospital) ==
  /\ At(p, "ct_saveAccepted")
  /\ hospital \in Hospitals => hospitals[hospital].exists
  /\ trips' = [trips EXCEPT ![req[p].tripId] =
       save(@, [status |-> "ACCEPTED", ambulanceId |-> req[p].amb,
                acceptedAt |-> TRUE],
            <<Entry("ACCEPTED")>>)]
  /\ req' = [req EXCEPT ![p] =
       IF hospital = NONE
       THEN Finished(req[p], "201")
       ELSE Goto([req[p] EXCEPT !.hosp = hospital], "ct_saveHospital")]
  /\ history' = [history EXCEPT ![req[p].tripId] = Append(@, "ACCEPTED")]
  /\ UNCHANGED <<ambStatus, ambLoc, geo, accepts, concurrency, search, sockets>>

\* trip.destinationHospitalId = ...; trip.dropoff = ...;
\* trip.timeline.push({status: "ACCEPTED", updatedBy: "system"}); await trip.save()
createTrip_saveHospital(p) ==
  /\ At(p, "ct_saveHospital")
  /\ trips' = [trips EXCEPT ![req[p].tripId] =
       save(@, [destinationHospitalId |-> req[p].hosp, dropoff |-> TRUE],
            <<Entry("ACCEPTED")>>)]
  /\ req' = [req EXCEPT ![p] = Finished(req[p], "201")]
  /\ UNCHANGED <<ambStatus, ambLoc, geo, history, accepts, concurrency, search, sockets>>

\* The checks the controller handlers make on the document they read:
\* 404, then the caller's assignment (403), then the status (400).
\* `statusOk` is the handler's status check applied to the document; r holds
\* what the handler uses of the document after its save.
ControllerRead(r, doc, caller, statusOk, next) ==
  IF ~doc.exists THEN Finished(r, "404")
  ELSE IF caller \in Ambulances /\ doc.ambulanceId # caller THEN Finished(r, "403")
  ELSE IF caller \in Hospitals /\ doc.destinationHospitalId # caller
  THEN Finished(r, "403")
  ELSE IF ~statusOk THEN Finished(r, "400")
  ELSE Goto(r, next)

\* arrivedAtPickup: requires status ACCEPTED
arrivedAtPickup(p, t, a) ==
  /\ CanStart(p)
  /\ ambStatus[a] # NONE
  /\ Room(t)
  /\ req' = [req EXCEPT ![p] =
       ControllerRead(NewReq("arrivedAtPickup", t, NONE, NONE, "ARRIVED_PICKUP"),
                      trips[t], a, trips[t].status = "ACCEPTED", "ap_save")]
  /\ UNCHANGED <<trips, ambStatus, ambLoc, geo, history, accepts, concurrency, search, sockets>>

arrivedAtPickup_save(p) ==
  /\ At(p, "ap_save")
  /\ trips' = [trips EXCEPT ![req[p].tripId] =
       save(@, [status |-> "ARRIVED_PICKUP", arrivedAtPickup |-> TRUE],
            <<Entry("ARRIVED_PICKUP")>>)]
  /\ req' = [req EXCEPT ![p] = Finished(req[p], "200")]
  /\ history' = [history EXCEPT ![req[p].tripId] = Append(@, "ARRIVED_PICKUP")]
  /\ UNCHANGED <<ambStatus, ambLoc, geo, accepts, concurrency, search, sockets>>

\* enRouteToHospital: requires status ARRIVED_PICKUP
enRouteToHospital(p, t, a) ==
  /\ CanStart(p)
  /\ ambStatus[a] # NONE
  /\ Room(t)
  /\ req' = [req EXCEPT ![p] =
       ControllerRead(NewReq("enRouteToHospital", t, NONE, NONE, "EN_ROUTE_HOSPITAL"),
                      trips[t], a, trips[t].status = "ARRIVED_PICKUP", "er_save")]
  /\ UNCHANGED <<trips, ambStatus, ambLoc, geo, history, accepts, concurrency, search, sockets>>

enRouteToHospital_save(p) ==
  /\ At(p, "er_save")
  /\ trips' = [trips EXCEPT ![req[p].tripId] =
       save(@, [status |-> "EN_ROUTE_HOSPITAL"], <<Entry("EN_ROUTE_HOSPITAL")>>)]
  /\ req' = [req EXCEPT ![p] = Finished(req[p], "200")]
  /\ history' = [history EXCEPT ![req[p].tripId] = Append(@, "EN_ROUTE_HOSPITAL")]
  /\ UNCHANGED <<ambStatus, ambLoc, geo, accepts, concurrency, search, sockets>>

\* arrivedAtHospital: requires status EN_ROUTE_HOSPITAL
arrivedAtHospital(p, t, a) ==
  /\ CanStart(p)
  /\ ambStatus[a] # NONE
  /\ Room(t)
  /\ req' = [req EXCEPT ![p] =
       ControllerRead(NewReq("arrivedAtHospital", t, NONE, NONE, "ARRIVED_HOSPITAL"),
                      trips[t], a, trips[t].status = "EN_ROUTE_HOSPITAL", "ah_save")]
  /\ UNCHANGED <<trips, ambStatus, ambLoc, geo, history, accepts, concurrency, search, sockets>>

arrivedAtHospital_save(p) ==
  /\ At(p, "ah_save")
  /\ trips' = [trips EXCEPT ![req[p].tripId] =
       save(@, [status |-> "ARRIVED_HOSPITAL", arrivedAtHospital |-> TRUE],
            <<Entry("ARRIVED_HOSPITAL")>>)]
  /\ req' = [req EXCEPT ![p] = Finished(req[p], "200")]
  /\ history' = [history EXCEPT ![req[p].tripId] = Append(@, "ARRIVED_HOSPITAL")]
  /\ UNCHANGED <<ambStatus, ambLoc, geo, accepts, concurrency, search, sockets>>

\* completeTrip, called by an ambulance or a hospital: requires ARRIVED_HOSPITAL
completeTrip(p, t, caller) ==
  /\ CanStart(p)
  /\ caller \in Ambulances => ambStatus[caller] # NONE
  /\ caller \in Hospitals => hospitals[caller].exists
  /\ Room(t)
  /\ req' = [req EXCEPT ![p] =
       ControllerRead([NewReq("completeTrip", t, NONE, NONE, "COMPLETED")
                         EXCEPT !.dAmb = trips[t].ambulanceId],
                      trips[t], caller, trips[t].status = "ARRIVED_HOSPITAL",
                      "complete_save")]
  /\ UNCHANGED <<trips, ambStatus, ambLoc, geo, history, accepts, concurrency, search, sockets>>

completeTrip_save(p) ==
  /\ At(p, "complete_save")
  /\ trips' = [trips EXCEPT ![req[p].tripId] =
       save(@, [status |-> "COMPLETED", completedAt |-> TRUE],
            <<Entry("COMPLETED")>>)]
  /\ req' = [req EXCEPT ![p] = AfterSave(req[p], "release")]
  /\ history' = [history EXCEPT ![req[p].tripId] = Append(@, "COMPLETED")]
  /\ UNCHANGED <<ambStatus, ambLoc, geo, accepts, concurrency, search, sockets>>

\* cancelTrip (controller), called by the user, an ambulance or an admin:
\* refused once the trip is COMPLETED or CANCELLED
cancelTrip(p, t, caller) ==
  /\ CanStart(p)
  /\ caller \in Ambulances => ambStatus[caller] # NONE
  /\ Room(t)
  /\ req' = [req EXCEPT ![p] =
       ControllerRead([NewReq("cancelTrip", t, NONE, NONE, "CANCELLED")
                         EXCEPT !.dAmb = trips[t].ambulanceId],
                      trips[t], caller, ~IsTerminal(trips[t].status),
                      "ctlcancel_save")]
  /\ UNCHANGED <<trips, ambStatus, ambLoc, geo, history, accepts, concurrency, search, sockets>>

cancelTrip_save(p) ==
  /\ At(p, "ctlcancel_save")
  /\ trips' = [trips EXCEPT ![req[p].tripId] =
       save(@, [status |-> "CANCELLED"], <<Entry("CANCELLED")>>)]
  /\ req' = [req EXCEPT ![p] = AfterSave(req[p], "release")]
  /\ history' = [history EXCEPT ![req[p].tripId] = Append(@, "CANCELLED")]
  /\ UNCHANGED <<ambStatus, ambLoc, geo, accepts, concurrency, search, sockets>>

\* updateTripLocation: refused for COMPLETED, CANCELLED and SEARCHING trips
updateTripLocation(p, t, a) ==
  /\ CanStart(p)
  /\ ambStatus[a] # NONE
  /\ Len(trips[t].timeline) < MaxTracked
  /\ req' = [req EXCEPT ![p] =
       ControllerRead([NewReq("updateTripLocation", t, NONE, NONE, NONE)
                         EXCEPT !.dStatus = trips[t].status],
                      trips[t], a,
                      trips[t].status \notin {"COMPLETED", "CANCELLED", "SEARCHING"},
                      "loc_save")]
  /\ UNCHANGED <<trips, ambStatus, ambLoc, geo, history, accepts, concurrency, search, sockets>>

\* trip.timeline.push({status: trip.status, ...}); await trip.save()
updateTripLocation_save(p) ==
  /\ At(p, "loc_save")
  /\ trips' = [trips EXCEPT ![req[p].tripId] =
       save(@, <<>>, <<Entry(req[p].dStatus)>>)]
  /\ req' = [req EXCEPT ![p] = Finished(req[p], "200")]
  /\ UNCHANGED <<ambStatus, ambLoc, geo, history, accepts, concurrency, search, sockets>>

\* The response has been sent.  The requests still in flight keep the lowest
\* slots (requests are interchangeable), the last slot is free again.
Respond(p) ==
  /\ req[p].pc = "done"
  /\ req' = [q \in Procs |->
       IF q < p THEN req[q] ELSE IF q + 1 \in Procs THEN req[q + 1] ELSE Idle]
  /\ UNCHANGED <<trips, ambStatus, ambLoc, geo, history, accepts, concurrency, search, sockets>>

Next ==
  \/ \E p \in Procs : Respond(p)
  \/ \E p \in Procs, t \in TripIds :
        \/ \E h \in Hospitals \cup {NONE} : createTripRequest(p, t, h)
        \/ \E a \in Ambulances, status \in TripStatus :
              updateTripStatusByAmbulance(p, t, a, status)
        \/ \E a \in Ambulances : assignAmbulanceToTrip(p, t, a)
        \/ \E caller \in Users \cup Ambulances : cancelTripRequest(p, t, caller)
        \/ createTrip(p, t)
        \/ \E a \in Ambulances :
              \/ arrivedAtPickup(p, t, a)
              \/ enRouteToHospital(p, t, a)
              \/ arrivedAtHospital(p, t, a)
              \/ updateTripLocation(p, t, a)
        \/ \E caller \in Ambulances \cup Hospitals : completeTrip(p, t, caller)
        \/ \E caller \in Ambulances \cup {"user", "admin"} : cancelTrip(p, t, caller)
  \/ \E p \in Procs :
        \/ createTripRequest_onTrip(p)
        \/ createTripRequest_saveAccepted(p)
        \/ createTripRequest_saveSearching(p)
        \/ updateTripStatus_save(p)
        \/ assignAmbulanceToTrip_readAmbulance(p)
        \/ assignAmbulanceToTrip_onTrip(p)
        \/ assignAmbulanceToTrip_updateTripStatus(p)
        \/ cancelTripRequest_save(p)
        \/ releaseAmbulance(p)
        \/ createTrip_find(p)
        \/ \E h \in Hospitals \cup {NONE} : createTrip_saveAccepted(p, h)
        \/ createTrip_saveHospital(p)
        \/ arrivedAtPickup_save(p)
        \/ enRouteToHospital_save(p)
        \/ arrivedAtHospital_save(p)
        \/ completeTrip_save(p)
        \/ cancelTrip_save(p)
        \/ updateTripLocation_save(p)
  \/ \E a \in Ambulances :
        \/ \E status \in AmbulanceStatus : updateAmbulanceStatus(a, status)
        \/ loginAmbulance(a)
        \/ logoutAmbulance(a)

Spec == Init /\ [][Next]_vars

SpecFleet == InitFleet /\ [][Next]_vars

(***************************************************************************)
(* Connections (socket.middleware.ts, connection.handler.ts)               *)
(***************************************************************************)
\* How many connections run a handler at the same time, at most.
SocketConcurrency == 1

\* No other step is taken while a response or callback is being sent, and at
\* most SocketConcurrency handlers run.
SocketFree(s) ==
  /\ ~Responding
  /\ sock[s].pc = "idle"
  /\ Cardinality({x \in Sockets : sock[x].pc # "idle"}) < SocketConcurrency

\* An event of connection s is handled: only a connection that passed the
\* handshake has handlers registered (io.use, then io.on("connection")).
SocketCanStart(s) == conn[s] /\ SocketFree(s)

SocketAt(s, pc) == ~Responding /\ sock[s].pc = pc

\* socket.to(room).emit(...): every member of the room but the sender.
socketTo_includingSender(s, members) == members

socketTo(s, members) == members \ {s}

\* An event as delivered: its name, the trip of the room, the receivers.
Delivery(name, t, to) == [name |-> name, tripId |-> t, to |-> to]

\* callback({success, message}): the handler is over.
Callback(h, message) ==
  [NoHandler EXCEPT !.pc = "done", !.event = h.event, !.tripId = h.tripId,
                    !.token = h.token, !.result = message]

\* The credentials a client may present at the handshake: none, a token that
\* jwt.verify rejects, a signed token {id, role}.
Roles == {"user", "ambulance", "admin"}
NoToken == [kind |-> "missing", id |-> NONE, role |-> NONE]
BadToken == [kind |-> "invalid", id |-> NONE, role |-> NONE]
Signed(id, role) == [kind |-> "signed", id |-> id, role |-> role]

\* What the client behind connection s may send: its own id under any role,
\* the role "hospital" (which has tokens but no socket access) included.
Credentials(s) ==
  {NoToken, BadToken} \cup {Signed(userId(s), r) : r \in Roles \cup {"hospital"}}

\* User.findById / Ambulance.findById / Admin.findById finds a document.
findById(role, id) ==
  CASE role = "user" -> id \in Users
    [] role = "ambulance" -> id \in Ambulances /\ ambStatus[id] # NONE
    [] role = "admin" -> id \in Admins
    [] OTHER -> FALSE

socketAuthMiddleware_anyRole(token) ==
  IF token.kind = "missing" THEN "Authentication error: No token provided"
  ELSE IF token.kind = "invalid" THEN "Authentication error: Invalid token"
  ELSE "next"

\* socketAuthMiddleware: next() or next(new Error(...)).
socketAuthMiddleware(token) ==
  IF token.kind = "missing" THEN "Authentication error: No token provided"
  ELSE IF token.kind = "invalid" THEN "Authentication error: Invalid token"
  ELSE IF token.role \notin Roles THEN "Authentication error: Invalid role"
  ELSE IF ~findById(token.role, token.id) THEN "Authentication error: User not found"
  ELSE "next"

\* A client opens connection s with `token`.  After the middleware accepts,
\* connectionHandler writes socket:mapping (`up`: Redis answers; an error is
\* caught and logged), registers the handlers and emits "connected".
connect(s, token, up) ==
  /\ ~conn[s]
  /\ SocketFree(s)
  /\ LET h == [NoHandler EXCEPT !.event = "connection", !.token = token]
         verdict == socketAuthMiddleware(token)
     IN IF verdict # "next"
        THEN /\ sock' = [sock EXCEPT ![s] = Callback(h, verdict)]
             /\ UNCHANGED <<conn, presence, reverse>>
        ELSE /\ sock' = [sock EXCEPT ![s] = Callback(h, "connected")]
             /\ conn' = [conn EXCEPT ![s] = TRUE]
             /\ presence' = IF up THEN presence \cup {s} ELSE presence
             /\ reverse' = IF up THEN [reverse EXCEPT ![userId(s)] = s] ELSE reverse
  /\ UNCHANGED <<trips, ambStatus, ambLoc, geo, req, history, accepts,
                 concurrency, search, rooms, participants, cache, left>>

\* socket.rooms as the "disconnect" handler reads it: socket.io has removed
\* the connection from all its rooms before it emits "disconnect".
roomsAtDisconnect(s) == {}

\* Connection s closes.  socket.io leaves its rooms, then the "disconnect"
\* handler deletes the socket:mapping entry and notifies the trip rooms it
\* finds in socket.rooms.
disconnect(s, up) ==
  /\ conn[s]
  /\ SocketFree(s)
  /\ conn' = [conn EXCEPT ![s] = FALSE]
  /\ rooms' = [t \in TripIds |-> rooms[t] \ {s}]
  /\ presence' = IF up THEN presence \ {s} ELSE presence
  /\ reverse' = IF up THEN [reverse EXCEPT ![userId(s)] = NONE] ELSE reverse
  /\ sock' = [sock EXCEPT ![s] =
       [Callback([NoHandler EXCEPT !.event = "disconnect"], NONE)
          EXCEPT !.emitted =
            IF roomsAtDisconnect(s) = {} THEN <<>>
            ELSE <<Delivery("participant_disconnected", NONE,
                            UNION {socketTo(s, rooms'[t]) : t \in roomsAtDisconnect(s)})>>]]
  /\ left' = [t \in TripIds |-> left[t] \ {s}]
  /\ UNCHANGED <<trips, ambStatus, ambLoc, geo, req, history, accepts,
                 concurrency, search, participants, cache>>

\* The callback has been sent.
Acknowledge(s) ==
  /\ sock[s].pc = "done"
  /\ sock' = [sock EXCEPT ![s] = NoHandler]
  /\ UNCHANGED <<trips, ambStatus, ambLoc, geo, req, history, accepts,
                 concurrency, search, rooms, participants, conn, presence, reverse, cache, left>>

(***************************************************************************)
(* Trip rooms (socket event handlers of registerTripEvents)                *)
(***************************************************************************)
isAuthorized_anyAmbulance(s, doc) ==
  userRole(s) \in {"admin", "ambulance"} \/ doc.userId = userId(s)

\* userRole === "admin" || trip.userId._id.toString() === userId
\*   || trip.ambulanceId?._id?.toString() === userId
isAuthorized(s, doc) ==
  userRole(s) = "admin" \/ doc.userId = userId(s) \/ doc.ambulanceId = userId(s)

\* What a handler keeps of Trip.findById(tripId).
ReadTrip(t) ==
  [exists |-> trips[t].exists,
   userId |-> IF trips[t].exists THEN Requester ELSE NONE,
   ambulanceId |-> trips[t].ambulanceId]

\* join_trip: await Trip.findById(tripId)
join_trip(s, t) ==
  /\ SocketCanStart(s)
  /\ sock' = [sock EXCEPT ![s] =
       [NoHandler EXCEPT !.pc = "join_check", !.event = "join_trip", !.tripId = t,
                         !.doc = ReadTrip(t)]]
  /\ UNCHANGED <<trips, ambStatus, ambLoc, geo, req, history, accepts,
                 concurrency, search, rooms, participants, conn, presence, reverse, cache, left>>

\* join_trip after the read: "Trip not found", the authorization check, then
\* socket.join(roomName) and the SADD sent to Redis.
join_trip_check(s) ==
  /\ SocketAt(s, "join_check")
  /\ LET h == sock[s] IN
     IF ~h.doc.exists
     THEN /\ sock' = [sock EXCEPT ![s] = Callback(h, "Trip not found")]
          /\ UNCHANGED rooms
     ELSE IF ~isAuthorized(s, h.doc)
     THEN /\ sock' = [sock EXCEPT ![s] = Callback(h, "Unauthorized")]
          /\ UNCHANGED rooms
     ELSE /\ rooms' = [rooms EXCEPT ![h.tripId] = @ \cup {s}]
          /\ sock' = [sock EXCEPT ![s].pc = "join_sAdd"]
  /\ UNCHANGED <<trips, ambStatus, ambLoc, geo, req, history, accepts,
                 concurrency, search, participants, conn, presence, reverse, cache, left>>

\* await redis.sAdd(`trip_participants:${tripId}`, socket.id), then
\* participant_joined to the room and the callback.
join_trip_sAdd(s) ==
  /\ SocketAt(s, "join_sAdd")
  /\ participants' = [participants EXCEPT ![sock[s].tripId] = @ \cup {s}]
  /\ sock' = [sock EXCEPT ![s] =
       [Callback(sock[s], "Successfully joined trip") EXCEPT !.emitted =
          <<Delivery("participant_joined", sock[s].tripId,
                     socketTo(s, rooms[sock[s].tripId]))>>]]
  /\ left' = [left EXCEPT ![sock[s].tripId] = @ \ {s}]
  /\ UNCHANGED <<trips, ambStatus, ambLoc, geo, req, history, accepts,
                 concurrency, search, rooms, conn, presence, reverse, cache>>

\* leave_trip: socket.leave(roomName)
leave_trip(s, t) ==
  /\ SocketCanStart(s)
  /\ rooms' = [rooms EXCEPT ![t] = @ \ {s}]
  /\ sock' = [sock EXCEPT ![s] =
       [NoHandler EXCEPT !.pc = "leave_sRem", !.event = "leave_trip", !.tripId = t]]
  /\ UNCHANGED <<trips, ambStatus, ambLoc, geo, req, history, accepts,
                 concurrency, search, participants, conn, presence, reverse, cache, left>>

\* await redis.sRem(`trip_participants:${tripId}`, socket.id), then
\* participant_left to the room and the callback.
leave_trip_sRem(s) ==
  /\ SocketAt(s, "leave_sRem")
  /\ participants' = [participants EXCEPT ![sock[s].tripId] = @ \ {s}]
  /\ sock' = [sock EXCEPT ![s] =
       [Callback(sock[s], "Successfully left trip") EXCEPT !.emitted =
          <<Delivery("participant_left", sock[s].tripId,
                     socketTo(s, rooms[sock[s].tripId]))>>]]
  /\ left' = [left EXCEPT ![sock[s].tripId] = @ \cup {s}]
  /\ UNCHANGED <<trips, ambStatus, ambLoc, geo, req, history, accepts,
                 concurrency, search, rooms, conn, presence, reverse, cache>>

\* get_trip_participants: await redis.sMembers(`trip_participants:${tripId}`)
get_trip_participants(s, t) ==
  /\ SocketCanStart(s)
  /\ sock' = [sock EXCEPT ![s] =
       [NoHandler EXCEPT !.pc = "participants_hGet",
                         !.event = "get_trip_participants", !.tripId = t,
                         !.socketIds = participants[t]]]
  /\ UNCHANGED <<trips, ambStatus, ambLoc, geo, req, history, accepts,
                 concurrency, search, rooms, participants, conn, presence, reverse, cache, left>>

\* redis.hGet("socket:mapping", socketId) for every id read (null for an id
\* the hash does not hold), then the callback: participants is the list
\* without the nulls, count is the length of the list with them.
get_trip_participants_hGet(s) ==
  /\ SocketAt(s, "participants_hGet")
  /\ sock' = [sock EXCEPT ![s] =
       [Callback(sock[s], "success") EXCEPT
          !.socketIds = sock[s].socketIds,
          !.participants = sock[s].socketIds \cap presence,
          !.count = Cardinality(sock[s].socketIds)]]
  /\ UNCHANGED <<trips, ambStatus, ambLoc, geo, req, history, accepts,
                 concurrency, search, rooms, participants, conn, presence, reverse, cache, left>>

\* The requests that create a trip and give it an ambulance (the service's
\* createTripRequest and acceptTrip), with the ambulances going ready.
TripSetup ==
  \/ \E p \in Procs : Respond(p)
  \/ \E p \in Procs, t \in TripIds :
        \/ \E h \in Hospitals \cup {NONE} : createTripRequest(p, t, h)
        \/ \E a \in Ambulances : assignAmbulanceToTrip(p, t, a)
  \/ \E p \in Procs :
        \/ createTripRequest_onTrip(p)
        \/ createTripRequest_saveAccepted(p)
        \/ createTripRequest_saveSearching(p)
        \/ updateTripStatus_save(p)
        \/ assignAmbulanceToTrip_readAmbulance(p)
        \/ assignAmbulanceToTrip_onTrip(p)
        \/ assignAmbulanceToTrip_updateTripStatus(p)
  \/ \E a \in Ambulances : updateAmbulanceStatus(a, "ready")

\* The whole fleet registered, every client connected.
InitRooms == Stores(FirstTrip, Ambulances, 1) /\ NoSockets /\ Connected(Sockets)

\* Clients joining the room of a trip and disconnecting while the trip is
\* requested and accepted.
NextRooms ==
  \/ \E s \in Sockets : Acknowledge(s)
  \/ \E s \in Sockets : disconnect(s, TRUE)
  \/ \E s \in Sockets, t \in TripIds : join_trip(s, t)
  \/ \E s \in Sockets : join_trip_check(s)
  \/ \E s \in Sockets : join_trip_sAdd(s)
  \/ TripSetup

SpecRooms == InitRooms /\ [][NextRooms]_vars

\* Clients joining and leaving the room of a trip, any number of times.
NextLeave ==
  \/ \E s \in Sockets : Acknowledge(s)
  \/ \E s \in Sockets, t \in TripIds : join_trip(s, t)
  \/ \E s \in Sockets : join_trip_check(s)
  \/ \E s \in Sockets : join_trip_sAdd(s)
  \/ \E s \in Sockets, t \in TripIds : leave_trip(s, t)
  \/ \E s \in Sockets : leave_trip_sRem(s)
  \/ TripSetup

SpecLeave == InitRooms /\ [][NextLeave]_vars

\* A store with room for two trips of the requester, the whole fleet
\* registered, two requests in flight at most.
InitTrips == Stores(TwoTrips, Ambulances, 2) /\ NoSockets /\ NoConnections

\* Trips created on both routes and accepted, with the ambulances going ready.
NextTrips ==
  \/ TripSetup
  \/ \E p \in Procs, t \in TripIds : createTrip(p, t)
  \/ \E p \in Procs : createTrip_find(p)
  \/ \E p \in Procs : createTrip_saveAccepted(p, NONE)

SpecTrips == InitTrips /\ [][NextTrips]_vars

\* One ambulance registered, no client connected.
InitConnect == Stores(FirstTrip, {"a1"}, 1) /\ NoSockets /\ NoConnections

\* Clients presenting every credential, sending join_trip and disconnecting,
\* while Redis answers or not.
NextConnect ==
  \/ \E s \in Sockets : Acknowledge(s)
  \/ \E s \in Sockets : \E token \in Credentials(s), up \in BOOLEAN :
        connect(s, token, up)
  \/ \E s \in Sockets, up \in BOOLEAN : disconnect(s, up)
  \/ \E s \in Sockets, t \in TripIds : join_trip(s, t)
  \/ \E s \in Sockets : join_trip_check(s)

SpecConnect == InitConnect /\ [][NextConnect]_vars

\* The ambulance requests and the handshake while Redis answers or not.
NextFaults ==
  \/ \E p \in Procs : Respond(p)
  \/ \E p \in Procs, a \in Ambulances, up \in BOOLEAN :
        \/ \E status \in AmbulanceStatus : updateAmbulanceStatus_http(p, a, status, up)
        \/ \E location \in Locs : updateAmbulanceLocation(p, a, location, up)
        \/ loginAmbulance_http(p, a, up)
  \/ \E s \in Sockets : Acknowledge(s)
  \/ \E s \in Sockets : \E token \in Credentials(s), up \in BOOLEAN :
        connect(s, token, up)

SpecFaults == InitFleet /\ [][NextFaults]_vars

\* connectionHandler up to its first await (redis.hSet): the middleware has
\* accepted the connection, nothing is registered on the socket yet.
connectionHandler(s, token) ==
  /\ ~conn[s]
  /\ SocketFree(s)
  /\ socketAuthMiddleware(token) = "next"
  /\ conn' = [conn EXCEPT ![s] = TRUE]
  /\ sock' = [sock EXCEPT ![s] =
       [NoHandler EXCEPT !.pc = "connection_hSet", !.event = "connection",
                         !.token = token]]
  /\ UNCHANGED <<trips, ambStatus, ambLoc, geo, req, history, accepts,
                 concurrency, search, rooms, participants, presence, reverse,
                 cache, left>>

\* The client closes connection s while connectionHandler awaits Redis:
\* socket.io emits "disconnect" on a socket that has no listener for it yet.
close(s) ==
  /\ conn[s]
  /\ SocketAt(s, "connection_hSet")
  /\ conn' = [conn EXCEPT ![s] = FALSE]
  /\ UNCHANGED <<trips, ambStatus, ambLoc, geo, req, history, accepts,
                 concurrency, search, rooms, participants, sock, presence,
                 reverse, cache, left>>

\* redis.hSet("socket:mapping", socket.id, ...) and redis.set of the reverse
\* key resolve; the handler goes on: joins, registers the event handlers and
\* the "disconnect" listener, emits "connected".
connectionHandler_hSet(s) ==
  /\ SocketAt(s, "connection_hSet")
  /\ presence' = presence \cup {s}
  /\ reverse' = [reverse EXCEPT ![userId(s)] = s]
  /\ sock' = [sock EXCEPT ![s] = Callback(sock[s], "connected")]
  /\ UNCHANGED <<trips, ambStatus, ambLoc, geo, req, history, accepts,
                 concurrency, search, rooms, participants, conn, cache, left>>

\* Every connection a client may open, the requester's second one included;
\* none is open.
Devices == Clients \cup {SecondDevice}

InitPresence ==
  /\ Stores(FirstTrip, Ambulances, 1)
  /\ rooms = [t \in TripIds |-> {}]
  /\ participants = [t \in TripIds |-> {}]
  /\ sock = [s \in Devices |-> NoHandler]
  /\ cache = [r \in CacheRoles |-> [t \in TripIds |-> NoEntry]]
  /\ left = [t \in TripIds |-> {}]
  /\ NoConnections

\* Clients connecting and disconnecting while Redis answers.
NextPresence ==
  \/ \E s \in Sockets : Acknowledge(s)
  \/ \E s \in Sockets : \E token \in Credentials(s) : connect(s, token, TRUE)
  \/ \E s \in Sockets : disconnect(s, TRUE)

SpecPresence == InitPresence /\ [][NextPresence]_vars

\* The same with the handshake taken step by step.
NextHandshake ==
  \/ \E s \in Sockets : Acknowledge(s)
  \/ \E s \in Sockets : \E token \in Credentials(s) : connectionHandler(s, token)
  \/ \E s \in Sockets : close(s)
  \/ \E s \in Sockets : connectionHandler_hSet(s)
  \/ \E s \in Sockets : disconnect(s, TRUE)

\* Redis answers every command and the event loop runs every handler that is
\* ready to go on; what the clients do is up to them.
FairPresence ==
  /\ InitPresence
  /\ [][NextHandshake]_vars
  /\ WF_vars(\E s \in Sockets : connectionHandler_hSet(s))
  /\ WF_vars(\E s \in Sockets : Acknowledge(s))

(***************************************************************************)
(* Live locations (socket event handlers of registerLocationEvents)        *)
(***************************************************************************)
\* EX: 300 of redis.set(locationKey, ...): the seconds a location key lives.
LocationTTL == 300
\* The seconds that pass between two looks at the clock.
TickSeconds == 100

expired_late(age) == age > LocationTTL

\* Redis removes a key once its time to live has elapsed.
expired(age) == age >= LocationTTL

\* `location:${targetRole}:${tripId}`, by the role it names.
locationKey_otherRole(targetRole) ==
  IF targetRole = "user" THEN "ambulance" ELSE "user"

locationKey(targetRole) == targetRole

\* redis.get(`location:${role}:${tripId}`)
redisGet(role, t) == IF role \in CacheRoles THEN cache[role][t] ELSE NoEntry

\* redis.keys(`location:*:${tripId}`), by the roles the keys name.
redisKeys(t) == {r \in CacheRoles : cache[r][t].present}

\* Time passes: every location key ages and is removed at the end of its life.
Tick ==
  /\ ~Responding
  /\ \E r \in CacheRoles, t \in TripIds : cache[r][t].present
  /\ cache' = [r \in CacheRoles |-> [t \in TripIds |->
       IF ~cache[r][t].present \/ expired(cache[r][t].age + TickSeconds)
       THEN NoEntry
       ELSE [cache[r][t] EXCEPT !.age = @ + TickSeconds]]]
  /\ UNCHANGED <<trips, ambStatus, ambLoc, geo, req, history, accepts,
                 concurrency, search, rooms, participants, sock, conn,
                 presence, reverse, left>>

\* (userRole === "user" && trip.userId.toString() === userId) ||
\* (userRole === "ambulance" && trip.ambulanceId?.toString() === userId)
maySendLocation(s, doc) ==
  \/ userRole(s) = "user" /\ doc.userId = userId(s)
  \/ userRole(s) = "ambulance" /\ doc.ambulanceId = userId(s)

\* location_update: the trip is read and the sender checked; the location is
\* stored under location:<role>:<tripId> for LocationTTL seconds; an
\* ambulance is also moved in the GEO index; location_updated goes to the
\* trip room through socket.to.  The durable store is not written.
location_update(s, t, location) ==
  /\ SocketCanStart(s)
  /\ LET h == [NoHandler EXCEPT !.event = "location_update", !.tripId = t]
         doc == ReadTrip(t)
     IN IF ~doc.exists
        THEN /\ sock' = [sock EXCEPT ![s] = Callback(h, "Trip not found")]
             /\ UNCHANGED <<cache, geo>>
        ELSE IF ~maySendLocation(s, doc)
        THEN /\ sock' = [sock EXCEPT ![s] = Callback(h,
                    "Unauthorized: Only trip participants can send location")]
             /\ UNCHANGED <<cache, geo>>
        ELSE /\ cache' = [cache EXCEPT ![userRole(s)][t] =
                    [present |-> TRUE, userId |-> userId(s),
                     location |-> location, age |-> 0]]
             /\ geo' = IF userRole(s) = "ambulance"
                       THEN geoAdd(geo, userId(s), location)
                       ELSE geo
             /\ sock' = [sock EXCEPT ![s] =
                  [Callback(h, "Location updated") EXCEPT !.emitted =
                     <<Delivery("location_updated", t, socketTo(s, rooms[t]))>>]]
  /\ UNCHANGED <<trips, ambStatus, ambLoc, req, history, accepts, concurrency,
                 search, rooms, participants, conn, presence, reverse, left>>

\* The connections in admin-room: connectionHandler joins every admin to it.
adminRoom == {s \in Sockets : conn[s] /\ userRole(s) = "admin"}

\* emergency_sos: Trip.findById; when the trip exists the alert goes to the
\* trip room and to admin-room through socket.to.  The sender is not checked
\* against the trip.
emergency_sos(s, t) ==
  /\ SocketCanStart(s)
  /\ LET h == [NoHandler EXCEPT !.event = "emergency_sos", !.tripId = t]
         doc == ReadTrip(t)
     IN sock' = [sock EXCEPT ![s] =
          IF ~doc.exists
          THEN Callback(h, "Trip not found")
          ELSE [Callback(h, "SOS sent") EXCEPT !.emitted =
                  <<Delivery("emergency_sos", t, socketTo(s, rooms[t])),
                    Delivery("emergency_sos", t, socketTo(s, adminRoom))>>]]
  /\ UNCHANGED <<trips, ambStatus, ambLoc, geo, req, history, accepts,
                 concurrency, search, rooms, participants, conn, presence, reverse,
                 cache, left>>

\* callback({success: true, location, note}) of get_location: `key` is the
\* role whose entry is returned.
Reply(h, key, entry, note) ==
  [Callback(h, "success") EXCEPT !.targetRole = h.targetRole, !.key = key,
                                 !.location = entry, !.note = note]

NotAvailable(h) ==
  [Callback(h, "Location not available") EXCEPT !.targetRole = h.targetRole]

\* get_location: Trip.findById and the authorization check.
get_location(s, t, targetRole) ==
  /\ SocketCanStart(s)
  /\ LET h == [NoHandler EXCEPT !.event = "get_location", !.tripId = t,
                                !.targetRole = targetRole]
         doc == ReadTrip(t)
     IN sock' = [sock EXCEPT ![s] =
          IF ~doc.exists THEN Callback(h, "Trip not found")
          ELSE IF ~isAuthorized(s, doc) THEN Callback(h, "Unauthorized")
          ELSE [h EXCEPT !.pc = "get_exact"]]
  /\ UNCHANGED <<trips, ambStatus, ambLoc, geo, req, history, accepts,
                 concurrency, search, rooms, participants, conn, presence, reverse,
                 cache, left>>

\* await redis.get(locationKey): the entry of the target role, if there is one.
get_location_exact(s) ==
  /\ SocketAt(s, "get_exact")
  /\ LET h == sock[s]
         key == locationKey(h.targetRole)
         locationData == redisGet(key, h.tripId)
     IN sock' = [sock EXCEPT ![s] =
          IF locationData.present THEN Reply(h, key, locationData, NONE)
          ELSE [h EXCEPT !.pc = "get_keys"]]
  /\ UNCHANGED <<trips, ambStatus, ambLoc, geo, req, history, accepts,
                 concurrency, search, rooms, participants, conn, presence, reverse,
                 cache, left>>

\* await redis.keys(`location:*:${tripId}`); allKeys[0] is any of the keys,
\* KEYS returning them in no particular order.
get_location_keys(s) ==
  /\ SocketAt(s, "get_keys")
  /\ LET h == sock[s]
         allKeys == redisKeys(h.tripId)
     IN IF allKeys = {}
        THEN sock' = [sock EXCEPT ![s] = NotAvailable(h)]
        ELSE \E firstkey \in allKeys :
               sock' = [sock EXCEPT ![s] =
                          [h EXCEPT !.pc = "get_fallback", !.key = firstkey]]
  /\ UNCHANGED <<trips, ambStatus, ambLoc, geo, req, history, accepts,
                 concurrency, search, rooms, participants, conn, presence, reverse,
                 cache, left>>

\* await redis.get(firstkey): the fallback answer, if the key still lives.
get_location_fallback(s) ==
  /\ SocketAt(s, "get_fallback")
  /\ LET h == sock[s]
         fallbackData == redisGet(h.key, h.tripId)
     IN sock' = [sock EXCEPT ![s] =
          IF fallbackData.present
          THEN Reply(h, h.key, fallbackData, "Using fallback location")
          ELSE NotAvailable(h)]
  /\ UNCHANGED <<trips, ambStatus, ambLoc, geo, req, history, accepts,
                 concurrency, search, rooms, participants, conn, presence, reverse,
                 cache, left>>

\* A trip under way: a1 was auto-assigned to t1 and is on the trip, a2 is
\* ready; the requester, a1 and the admin have joined the trip room.
InitTrack ==
  /\ trips = [t \in FirstTrip |->
       NewTrip("ACCEPTED", "a1", "h1", <<Entry("SEARCHING"), Entry("ACCEPTED")>>)]
  /\ ambStatus = [a \in Ambulances |-> IF a = "a1" THEN "on-trip" ELSE "ready"]
  /\ ambLoc = Place
  /\ geo = {<<a, Place[a]>> : a \in Ambulances}
  /\ req = [p \in Procs |-> Idle]
  /\ history = [t \in TripIds |-> <<"SEARCHING", "ACCEPTED">>]
  /\ accepts = [t \in TripIds |-> 0]
  /\ concurrency = 1
  /\ hospitals = [h \in Hospitals |-> IF h = "h1" THEN Stocked ELSE NoHospital]
  /\ hospitalGeo = {<<"h1", 4>>}
  /\ lookup = NoLookup
  /\ rooms = [t \in TripIds |-> {Requester, "a1", "admin"}]
  /\ participants = rooms
  /\ sock = [s \in Clients |-> NoHandler]
  /\ cache = [r \in CacheRoles |-> [t \in TripIds |-> NoEntry]]
  /\ left = [t \in TripIds |-> {}]
  /\ Connected(Sockets)

\* The clients of a trip under way sending and asking for locations while
\* time passes.
NextTrack ==
  \/ \E s \in Sockets : Acknowledge(s)
  \/ \E s \in Sockets, t \in TripIds, location \in Locs :
        location_update(s, t, location)
  \/ \E s \in Sockets, t \in TripIds : emergency_sos(s, t)
  \/ \E s \in Sockets, t \in TripIds, targetRole \in Roles :
        get_location(s, t, targetRole)
  \/ \E s \in Sockets : get_location_exact(s)
  \/ \E s \in Sockets : get_location_keys(s)
  \/ \E s \in Sockets : get_location_fallback(s)
  \/ Tick

SpecTrack == InitTrack /\ [][NextTrack]_vars

\* The clients of a trip under way joining and leaving its room,
\* disconnecting, and asking who is in the room.
NextParticipants ==
  \/ \E s \in Sockets : Acknowledge(s)
  \/ \E s \in Sockets : disconnect(s, TRUE)
  \/ \E s \in Sockets, t \in TripIds : join_trip(s, t)
  \/ \E s \in Sockets : join_trip_check(s)
  \/ \E s \in Sockets : join_trip_sAdd(s)
  \/ \E s \in Sockets, t \in TripIds : leave_trip(s, t)
  \/ \E s \in Sockets : leave_trip_sRem(s)
  \/ \E s \in Sockets, t \in TripIds : get_trip_participants(s, t)
  \/ \E s \in Sockets : get_trip_participants_hGet(s)

SpecParticipants == InitTrack /\ [][NextParticipants]_vars

(***************************************************************************)
(* The two lookups on their own: every index content, every store content, *)
(* every argument.                                                         *)
(***************************************************************************)

\* Distances from the pickup point, in km: inside each radius and beyond the
\* last one.  0 stands for "not in the index".
Distances == {3, 8, 12, 25, 40}
Offsets == {0} \cup Distances

Indexed(f) == {<<m, f[m]>> : m \in {x \in DOMAIN f : f[x] # 0}}

\* The limits a caller passes (COUNT is limit, or limit * 2 for hospitals).
Limits == {1, 2}

Radii == {searchRadii[i] : i \in DOMAIN searchRadii}

\* The radii at which a pass may throw: none, the first two, all.
Downs == {{}, {5, 10}, Radii}

\* The filters a caller may pass: a blood type, a key already mapped, none.
BloodFilters == {NONE, "O-", "O_positive"}

\* Where a hospital may be: near, beyond the second radius, out of reach.
HospitalOffsets == {0, 3, 12, 40}

Inventories ==
  {NoHospital} \cup
  [exists : {TRUE}, O_negative : 0..1, O_positive : 0..1, beds : 0..1]

\* The ambulance side varies and the hospital side is fixed, or the other
\* way round.  An index may name an id the store has no document for.
InitSearch ==
  /\ trips = [t \in FirstTrip |-> NoTrip]
  /\ req = [p \in Procs |-> Idle]
  /\ history = [t \in TripIds |-> <<>>]
  /\ accepts = [t \in TripIds |-> 0]
  /\ concurrency = 0
  /\ ambLoc = Place
  /\ lookup = NoLookup
  /\ NoSockets
  /\ NoConnections
  /\ \/ /\ ambStatus \in [Ambulances -> AmbulanceStatus \cup {NONE}]
        /\ \E f \in [Ambulances -> Offsets] : geo = Indexed(f)
        /\ hospitals = [h \in Hospitals |-> Stocked]
        /\ hospitalGeo = {}
     \/ /\ ambStatus = [a \in Ambulances |-> "offline"]
        /\ geo = {}
        /\ hospitals \in {d \in [Hospitals -> Inventories] :
                           d["h2"] \in {NoHospital, Stocked, OutOfStock}}
        /\ \E f \in [Hospitals -> HospitalOffsets] : hospitalGeo = Indexed(f)

SearchAmbulances(limit, down) ==
  /\ \E out \in findNearbyFrom(1, geo, ambStatus, limit, down) :
       lookup' = [NoLookup EXCEPT !.fn = "findNearbyAmbulances",
                                  !.limit = limit, !.down = down,
                                  !.radius = out.radius, !.found = out.found,
                                  !.threw = out.threw]
  /\ UNCHANGED <<trips, ambStatus, ambLoc, geo, req, history, accepts,
                 concurrency, hospitals, hospitalGeo, sockets>>

SearchHospitals(limit, bloodType, requireBeds, down) ==
  /\ \E out \in findNearbyHospitals(hospitalGeo, hospitals, limit, bloodType,
                                    requireBeds, down) :
       lookup' = [NoLookup EXCEPT !.fn = "findNearbyHospitals",
                                  !.limit = limit, !.down = down,
                                  !.bloodType = bloodType,
                                  !.requireBeds = requireBeds,
                                  !.radius = out.radius, !.found = out.found,
                                  !.threw = out.threw]
  /\ UNCHANGED <<trips, ambStatus, ambLoc, geo, req, history, accepts,
                 concurrency, hospitals, hospitalGeo, sockets>>

NextSearch ==
  \/ \E limit \in Limits, down \in Downs : SearchAmbulances(limit, down)
  \/ \E limit \in Limits, bloodType \in BloodFilters,
        requireBeds \in BOOLEAN, down \in Downs :
       SearchHospitals(limit, bloodType, requireBeds, down)

SpecSearch == InitSearch /\ [][NextSearch]_vars

(***************************************************************************)
(* Properties                                                              *)
(***************************************************************************)
\* Request p takes a step of its handler (Respond, which only renumbers the
\* requests in flight, is not one).
Steps(p) == ~Responding /\ req'[p] # req[p]

\* Request p finishes its handler in this step.
Finishes(p) == Steps(p) /\ req'[p].pc = "done"

\* Request p, of handler `op`, is about to be answered with `result`.
Answered(p, op, result) ==
  req[p].pc = "done" /\ req[p].op = op /\ req[p].result = result

StatusesOf(timeline) == [i \in 1..Len(timeline) |-> timeline[i].status]

\* C1: of the accept requests (assignAmbulanceToTrip) made on one trip, at
\* most one succeeds, i.e. persists ACCEPTED and is answered 200, whatever
\* the interleaving of their reads and writes.
C1_OneAcceptSucceeds == \A t \in TripIds : accepts[t] <= 1

\* The handlers C2 lists as status changes.
StatusChangeOps ==
  {"createTripRequest", "updateTripStatus", "assignAmbulanceToTrip",
   "cancelTripRequest", "arrivedAtPickup", "enRouteToHospital",
   "arrivedAtHospital", "completeTrip", "cancelTrip"}

\* C2: every write to a trip made by createTripRequest, updateTripStatus,
\* assignAmbulanceToTrip, cancelTrip (service and controller),
\* arrivedAtPickup, enRouteToHospital, arrivedAtHospital or completeTrip
\* leaves the trip with a last timeline entry whose status is the trip's
\* persisted status.
C2_LastEntryIsStatus ==
  [][\A p \in Procs, t \in TripIds :
       (Steps(p) /\ req'[p].op \in StatusChangeOps /\ trips'[t] # trips[t])
       => Last(trips'[t].timeline).status = trips'[t].status]_vars

C2_Witness ==
  \E p \in Procs :
    /\ Answered(p, "updateTripStatus", "200")
    /\ trips[req[p].tripId].status = req[p].status
    /\ Last(trips[req[p].tripId].timeline).status = req[p].status
    /\ Len(trips[req[p].tripId].timeline) >= 3

\* The transition table of the specification.
TransitionTable ==
  {<<"SEARCHING", "ACCEPTED">>, <<"SEARCHING", "CANCELLED">>,
   <<"ACCEPTED", "ARRIVED_PICKUP">>, <<"ACCEPTED", "CANCELLED">>,
   <<"ARRIVED_PICKUP", "EN_ROUTE_HOSPITAL">>, <<"ARRIVED_PICKUP", "CANCELLED">>,
   <<"EN_ROUTE_HOSPITAL", "ARRIVED_HOSPITAL">>, <<"EN_ROUTE_HOSPITAL", "CANCELLED">>,
   <<"ARRIVED_HOSPITAL", "COMPLETED">>, <<"ARRIVED_HOSPITAL", "CANCELLED">>}

\* Request p runs updateTripStatus up to its save in this step: called by
\* updateTripStatusByAmbulance or by assignAmbulanceToTrip.
ReadsInUpdateTripStatus(p) ==
  \/ Steps(p) /\ req[p].op = "idle" /\ req'[p].op = "updateTripStatus"
  \/ Steps(p) /\ req[p].pc = "assign_uts"

\* C3: when updateTripStatus is asked for a status that the transition table
\* does not allow from the status it reads, it fails with the
\* invalid-transition error and writes nothing to the trip.
C3_InvalidTransitionRejected ==
  [][\A p \in Procs :
       (/\ ReadsInUpdateTripStatus(p)
        /\ trips[req'[p].tripId].exists
        /\ <<trips[req'[p].tripId].status, req'[p].status>> \notin TransitionTable)
       => /\ req'[p].pc = "done"
          /\ req'[p].result = "400 Invalid status transition"
          /\ trips' = trips]_vars

C3_Witness ==
  \E p \in Procs :
    /\ Answered(p, "updateTripStatus", "400 Invalid status transition")
    /\ <<trips[req[p].tripId].status, req[p].status>> \notin TransitionTable
    /\ trips[req[p].tripId].status = "ARRIVED_PICKUP"
    /\ req[p].status = "COMPLETED"

\* The operations C4 names: status update, accept, cancel, complete.
LifecycleOps ==
  {"updateTripStatus", "assignAmbulanceToTrip", "cancelTripRequest", "cancelTrip",
   "arrivedAtPickup", "enRouteToHospital", "arrivedAtHospital", "completeTrip"}

\* C4: once a trip's persisted status is COMPLETED or CANCELLED, no step of a
\* status update, accept, cancel or complete request changes it, whenever
\* that request read the trip.
C4_TerminalIsFinal ==
  [][\A p \in Procs, t \in TripIds :
       (Steps(p) /\ req'[p].op \in LifecycleOps /\ IsTerminal(trips[t].status))
       => trips'[t].status = trips[t].status]_vars

\* C5: an ambulance is a member of the index exactly when its durable status
\* is ready and its location is set.
C5_IndexedIffReady ==
  \A a \in Ambulances :
    a \in Members(geo) <=> (ambStatus[a] = "ready" /\ ambLoc[a] \in Locs)

\* C6: when a cancel of a trip with an assigned ambulance has completed, that
\* ambulance's durable status is ready and it is a member of the index.
C6_CancelReleasesAndIndexes ==
  [][\A p \in Procs :
       (/\ Finishes(p)
        /\ req'[p].op \in {"cancelTripRequest", "cancelTrip"}
        /\ req'[p].result = "200"
        /\ req[p].dAmb # NONE)
       => /\ ambStatus'[req[p].dAmb] = "ready"
          /\ req[p].dAmb \in Members(geo')]_vars

\* C7: when a request that made a trip with an assigned ambulance COMPLETED
\* (updateTripStatus with COMPLETED, or completeTrip) has completed, that
\* ambulance's durable status is ready and it is a member of the index.
C7_CompleteReleasesAndIndexes ==
  [][\A p \in Procs :
       (/\ Finishes(p)
        /\ req'[p].op \in {"updateTripStatus", "completeTrip"}
        /\ req'[p].status = "COMPLETED"
        /\ req'[p].result = "200"
        /\ trips'[req'[p].tripId].ambulanceId # NONE)
       => /\ ambStatus'[trips'[req'[p].tripId].ambulanceId] = "ready"
          /\ trips'[req'[p].tripId].ambulanceId \in Members(geo')]_vars

\* C8: when a request that made a trip ACCEPTED with ambulance a (creation
\* with automatic assignment, or accept) has completed, a's durable status
\* is on-trip.
C8_AcceptedMeansOnTrip ==
  [][\A p \in Procs :
       (/\ Finishes(p)
        /\ req'[p].op \in {"createTripRequest", "createTrip", "assignAmbulanceToTrip"}
        /\ req'[p].result \in {"200", "201"}
        /\ req'[p].amb # NONE)
       => ambStatus'[req'[p].amb] = "on-trip"]_vars

\* C9: updateTripStatus asked for ACCEPTED without an ambulance id (as
\* updateTripStatusByAmbulance always asks) fails, and the step writes
\* nothing to the trip.
C9_AcceptedNeedsAmbulance ==
  [][\A p \in Procs :
       (/\ Steps(p)
        /\ req[p].op = "idle"
        /\ req'[p].op = "updateTripStatus"
        /\ req'[p].status = "ACCEPTED")
       => /\ req'[p].pc = "done"
          /\ req'[p].result \in {"404", "400 Invalid status transition",
                                 "400 Ambulance ID required"}
          /\ trips' = trips]_vars

C9_Witness ==
  \E p \in Procs :
    /\ Answered(p, "updateTripStatus", "400 Ambulance ID required")
    /\ req[p].status = "ACCEPTED"
    /\ trips[req[p].tripId].status = "SEARCHING"
    /\ trips[req[p].tripId].ambulanceId = NONE
    /\ StatusesOf(trips[req[p].tripId].timeline) = <<"SEARCHING">>

\* C10: the timeline of a trip holds one entry per status the trip was
\* given, in order: after n successful transitions it has n + 1 entries.
C10_OneEntryPerTransition ==
  \A t \in TripIds :
    trips[t].exists =>
      /\ Len(trips[t].timeline) = Len(history[t])
      /\ \A i \in 1..Len(history[t]) : trips[t].timeline[i].status = history[t][i]

IsPrefix(s, t) == Len(s) <= Len(t) /\ SubSeq(t, 1, Len(s)) = s

\* C11: the timeline is append-only: in every step, of whatever request and
\* whatever else is in flight, the timeline persisted before the step is a
\* prefix of the timeline persisted after it.
C11_TimelineAppendOnly ==
  [][\A t \in TripIds :
       trips[t].exists => IsPrefix(trips[t].timeline, trips'[t].timeline)]_vars

\* A request that read the trip before another one cancelled it has appended
\* its entry after the CANCELLED entry.
C11_Witness ==
  \E p \in Procs :
    /\ Answered(p, "updateTripStatus", "200")
    /\ req[p].status = "ARRIVED_PICKUP"
    /\ StatusesOf(trips[req[p].tripId].timeline)
         = <<"SEARCHING", "ACCEPTED", "CANCELLED", "ARRIVED_PICKUP">>

\* The ambulances the index names and the store holds as ready.
ReadyIndexed == {a \in Members(geo) : ambStatus[a] = "ready"}

\* COUNT may have cut `a` from a pass: `limit` other members are as near.
CutByCount(a) ==
  Cardinality({b \in Members(geo) \ {a} : Position(geo, b) <= Position(geo, a)})
    >= lookup.limit

AmbulanceLookup == lookup.fn = "findNearbyAmbulances"

OnlyReadyAt12 ==
  /\ Members(geo) # {}
  /\ \A a \in Members(geo) : a \in ReadyIndexed /\ Position(geo, a) = 12

\* C12: findNearbyAmbulances tries the radii 5, 10, 17, 30 km in that order and
\* returns the candidates of the first radius that yields a ready ambulance:
\* what it returns is ready and inside the returned radius, no smaller radius
\* had a ready ambulance among the candidates of its pass, and with ready
\* ambulances only at 12 km the result comes from the 17 km pass.
C12_FirstRadiusWithReady ==
  (AmbulanceLookup /\ lookup.down = {}) =>
    /\ lookup.found # <<>> =>
         /\ lookup.radius \in Radii
         /\ \A i \in DOMAIN lookup.found :
              /\ lookup.found[i] \in ReadyIndexed
              /\ Position(geo, lookup.found[i]) <= lookup.radius
         /\ \A a \in ReadyIndexed, r \in Radii :
              (r < lookup.radius /\ Position(geo, a) <= r) => CutByCount(a)
    /\ OnlyReadyAt12 =>
         /\ lookup.radius = 17
         /\ Len(lookup.found) = Min(lookup.limit, Cardinality(Members(geo)))

C12_Witness ==
  /\ AmbulanceLookup
  /\ lookup.down = {}
  /\ OnlyReadyAt12
  /\ lookup.radius = 17
  /\ lookup.found # <<>>

HospitalLookup == lookup.fn = "findNearbyHospitals"

\* The units a hospital holds of the blood type a caller asked for.
StockOf(h, bloodType) ==
  IF bloodType \in {"O-", "O_negative"} THEN hospitals[h].O_negative
  ELSE hospitals[h].O_positive

\* C13: findNearbyHospitals never returns a hospital whose stock of the
\* requested blood type is 0, nor, when beds are required, one with no
\* available bed, even when that hospital is the nearest.
C13_NoEmptyHospitalReturned ==
  HospitalLookup =>
    \A i \in DOMAIN lookup.found :
      /\ lookup.bloodType # NONE => StockOf(lookup.found[i], lookup.bloodType) > 0
      /\ lookup.requireBeds => hospitals[lookup.found[i]].beds > 0

C13_Witness ==
  /\ HospitalLookup
  /\ lookup.bloodType = "O-"
  /\ lookup.requireBeds
  /\ hospitalGeo = {<<"h1", 3>>, <<"h2", 12>>}
  /\ hospitals["h1"].exists
  /\ hospitals["h1"].O_negative = 0
  /\ lookup.found = <<"h2">>

\* The radii whose pass answered.
Answering == Radii \ lookup.down

\* No pass that answered had anything to return: no ready ambulance (no
\* hospital passing the filters) is indexed inside an answering radius.
NoMatchAtAnyRadius ==
  \/ /\ AmbulanceLookup
     /\ \A r \in Answering, a \in ReadyIndexed : Position(geo, a) > r
  \/ /\ HospitalLookup
     /\ \A r \in Answering, h \in Members(hospitalGeo) :
          \/ Position(hospitalGeo, h) > r
          \/ ~hospitals[h].exists
          \/ lookup.bloodType # NONE /\ StockOf(h, lookup.bloodType) = 0
          \/ lookup.requireBeds /\ hospitals[h].beds = 0

\* C14: when no radius yields a match after filtering (the index empty or the
\* index query failing at every radius included), findNearbyAmbulances and
\* findNearbyHospitals return the empty list and raise no error.
C14_NoMatchReturnsEmpty ==
  /\ ~lookup.threw
  /\ NoMatchAtAnyRadius => lookup.found = <<>>

C14_Witness ==
  /\ AmbulanceLookup
  /\ lookup.down = Radii
  /\ \E a \in ReadyIndexed : Position(geo, a) <= 5
  /\ lookup.found = <<>>
  /\ ~lookup.threw

\* C15: every ambulance findNearbyAmbulances returns has a document in the
\* durable store whose status is "ready" at the time of the lookup: an indexed
\* id with no document, or whose document is on-trip or offline, is never
\* returned.
C15_ReturnedAreReadyInStore ==
  AmbulanceLookup =>
    \A i \in DOMAIN lookup.found :
      /\ ambStatus[lookup.found[i]] # NONE
      /\ ambStatus[lookup.found[i]] \notin {"on-trip", "offline"}

C15_Witness ==
  /\ AmbulanceLookup
  /\ lookup.limit = 2
  /\ geo = {<<"a1", 3>>, <<"a2", 3>>}
  /\ ambStatus["a1"] = NONE
  /\ lookup.found = <<"a2">>

\* The order of the resource ids.
IdRank == [x \in Ambulances \cup Hospitals |-> IF x \in {"a1", "h1"} THEN 1 ELSE 2]

\* The distance the result reports for the i-th resource, in meters.
ReportedDistance(i) ==
  IF AmbulanceLookup THEN distance(geo, lookup.found[i])
  ELSE distance(hospitalGeo, lookup.found[i])

\* C16: the results of findNearbyAmbulances and findNearbyHospitals are in
\* ascending order of distance, and resources at the same distance are in the
\* order of their ids.
C16_OrderedByDistanceThenId ==
  (AmbulanceLookup \/ HospitalLookup) =>
    \A i, j \in DOMAIN lookup.found :
      i < j =>
        \/ ReportedDistance(i) < ReportedDistance(j)
        \/ /\ ReportedDistance(i) = ReportedDistance(j)
           /\ IdRank[lookup.found[i]] < IdRank[lookup.found[j]]

CreationOps == {"createTripRequest", "createTrip"}

\* Request p, a trip creation, returns with the trip created; its record keeps
\* the ambulance the lookup found (NONE: none at any radius).
CreationReturns(p) ==
  /\ Finishes(p)
  /\ req'[p].op \in CreationOps
  /\ req'[p].result \in {"201", "200 waiting"}

\* How many times `e` occurs in the events a request published.
Count(e, events) == Cardinality({i \in DOMAIN events : events[i] = e})

\* C17: when a trip is created and no ambulance is found at any radius, the
\* trip is persisted SEARCHING with no ambulance and exactly one
\* new_trip_request event is published to the ambulance broadcast room.
C17_NoAmbulanceBroadcastsRequest ==
  [][\A p \in Procs :
       (CreationReturns(p) /\ req'[p].amb = NONE) =>
         /\ trips'[req'[p].tripId].exists
         /\ trips'[req'[p].tripId].status = "SEARCHING"
         /\ trips'[req'[p].tripId].ambulanceId = NONE
         /\ Count(Event(AmbulanceBroadcastRoom, "new_trip_request"),
                  req'[p].emitted) = 1]_vars

\* C18: when trip creation finds a ready ambulance, the trip ends ACCEPTED
\* with the ambulance found nearest, and one event each is published to the
\* requester's room (ambulance_assigned), the ambulance's room
\* (new_trip_assigned) and the admin room.
C18_AssignmentNotifiesAll ==
  [][\A p \in Procs :
       (CreationReturns(p) /\ req'[p].amb # NONE) =>
         /\ trips'[req'[p].tripId].status = "ACCEPTED"
         /\ trips'[req'[p].tripId].ambulanceId = req'[p].amb
         /\ Count(Event(UserRoom, "ambulance_assigned"), req'[p].emitted) = 1
         /\ Count(Event(AmbulanceRoom(req'[p].amb), "new_trip_assigned"),
                  req'[p].emitted) = 1
         /\ Cardinality({i \in DOMAIN req'[p].emitted :
                           req'[p].emitted[i][1] = AdminRoom}) = 1]_vars

\* Request p attaches the hospital it found to its trip: the second save of
\* createTrip.
AttachesHospital(p) == Steps(p) /\ req[p].pc = "ct_saveHospital"

\* C19: attaching a hospital is not a state transition: it sets only the
\* destination hospital id and the dropoff, and leaves the status, the
\* timeline and the milestone timestamps as they were.
C19_AttachHospitalChangesOnlyDestination ==
  [][\A p \in Procs :
       AttachesHospital(p) =>
         LET before == trips[req[p].tripId]
             after == trips'[req[p].tripId]
         IN /\ after.destinationHospitalId = req[p].hosp
            /\ after.dropoff
            /\ after.status = before.status
            /\ after.timeline = before.timeline
            /\ after.acceptedAt = before.acceptedAt
            /\ after.arrivedAtPickup = before.arrivedAtPickup
            /\ after.arrivedAtHospital = before.arrivedAtHospital
            /\ after.completedAt = before.completedAt]_vars

\* The trip document the handler of connection s read shows s as a party of
\* the trip: its requester, its assigned ambulance, or s is an admin.
ShownAsParty(s) ==
  /\ sock[s].doc.exists
  /\ \/ sock[s].doc.userId = s
     \/ sock[s].doc.ambulanceId = s
     \/ s = "admin"

\* C20: join_trip adds the connection to the trip's room only if the trip read
\* during that join shows the caller as the requester or the assigned
\* ambulance, or the caller is an admin; an unauthorized caller is refused and
\* added neither to the room nor to the participant set.
C20_JoinOnlyIfParty ==
  [][\A s \in Sockets, t \in TripIds :
       /\ (s \in rooms'[t] /\ s \notin rooms[t]) =>
            /\ sock[s].event = "join_trip"
            /\ sock[s].tripId = t
            /\ ShownAsParty(s)
       /\ (s \in participants'[t] /\ s \notin participants[t]) =>
            /\ sock[s].event = "join_trip"
            /\ sock[s].tripId = t
            /\ ShownAsParty(s)
       /\ (sock[s].pc = "join_check" /\ sock'[s] # sock[s] /\ sock[s].doc.exists
             /\ ~ShownAsParty(s)) =>
            /\ sock'[s].pc = "done"
            /\ sock'[s].result = "Unauthorized"
            /\ rooms' = rooms
            /\ participants' = participants]_vars

C20_Witness ==
  \E s \in Ambulances, t \in TripIds :
    /\ sock[s].pc = "done"
    /\ sock[s].event = "join_trip"
    /\ sock[s].result = "Unauthorized"
    /\ trips[t].exists
    /\ trips[t].ambulanceId \in Ambulances \ {s}
    /\ rooms[t] = {trips[t].ambulanceId, Requester}
    /\ s \notin participants[t]

\* C29: every trip is first persisted with status SEARCHING and a timeline of
\* one SEARCHING entry, and a trip becomes ACCEPTED only by a later step
\* applied to the persisted SEARCHING trip.
C29_FirstPersistedSearching ==
  [][\A t \in TripIds :
       /\ (~trips[t].exists /\ trips'[t].exists) =>
            /\ trips'[t].status = "SEARCHING"
            /\ StatusesOf(trips'[t].timeline) = <<"SEARCHING">>
       /\ (trips'[t].status = "ACCEPTED" /\ trips[t].status # "ACCEPTED") =>
            /\ trips[t].exists
            /\ trips[t].status = "SEARCHING"]_vars

\* Connection s ends a leave_trip for trip t that it repeats: its last room
\* event for t was a leave_trip too, and it is in neither the room nor the
\* participant set.
RepeatsLeave(s, t) ==
  /\ sock[s].pc = "leave_sRem"
  /\ sock[s].tripId = t
  /\ sock'[s].pc = "done"
  /\ s \in left[t]
  /\ s \notin participants[t]

\* C21: a leave_trip repeated by a connection that has already left the trip
\* answers success, changes neither the room nor the participant set, and
\* delivers no participant_left event to anybody.
C21_LeaveIdempotent ==
  [][\A s \in Sockets, t \in TripIds :
       RepeatsLeave(s, t) =>
         /\ sock'[s].result = "Successfully left trip"
         /\ rooms' = rooms
         /\ participants' = participants
         /\ \A i \in DOMAIN sock'[s].emitted :
              sock'[s].emitted[i].name = "participant_left" =>
                sock'[s].emitted[i].to = {}]_vars

\* C22: when a connection closes, the other members of every trip room it was
\* in are delivered participant_disconnected.
C22_DisconnectNotifiesRooms ==
  [][\A s \in Sockets, t \in TripIds :
       (conn[s] /\ ~conn'[s] /\ s \in rooms[t]) =>
         \A m \in rooms[t] \ {s} :
           \E i \in DOMAIN sock'[s].emitted :
             /\ sock'[s].emitted[i].name = "participant_disconnected"
             /\ m \in sock'[s].emitted[i].to]_vars

\* The credential resolves to an existing document of one of the three roles.
Resolves(token) ==
  /\ token.kind = "signed"
  /\ token.role \in Roles
  /\ findById(token.role, token.id)

Rejections ==
  {"Authentication error: No token provided",
   "Authentication error: Invalid token",
   "Authentication error: Invalid role",
   "Authentication error: User not found"}

\* C24: a connection is accepted only with a credential that resolves to an
\* existing identity of role user, ambulance or admin, which becomes the
\* connection's identity and role; any other credential is rejected and
\* registers nothing; only an accepted connection has an event handled.
C24_OnlyAuthenticatedConnections ==
  [][\A s \in Sockets :
       /\ (conn'[s] /\ ~conn[s]) =>
            /\ Resolves(sock'[s].token)
            /\ sock'[s].token.id = userId(s)
            /\ sock'[s].token.role = userRole(s)
       /\ (sock[s].pc = "idle" /\ sock'[s].event = "connection"
             /\ ~Resolves(sock'[s].token)) =>
            /\ sock'[s].pc = "done"
            /\ sock'[s].result \in Rejections
            /\ ~conn'[s]
            /\ presence' = presence
       /\ (sock'[s] # sock[s] /\ sock'[s].event \notin {NONE, "connection"}) =>
            conn[s]]_vars

\* An ambulance without a document was rejected while another client is
\* connected and registered.
C24_Witness ==
  \E s \in Ambulances, x \in Sockets \ Ambulances :
    /\ sock[s].pc = "done"
    /\ sock[s].event = "connection"
    /\ sock[s].token = Signed(userId(s), "ambulance")
    /\ sock[s].result = "Authentication error: User not found"
    /\ ~conn[s]
    /\ conn[x]
    /\ x \in presence

\* Connection s ends a location_update for trip t with success in this step.
SendsLocation(s, t) ==
  /\ sock[s].pc = "idle"
  /\ sock'[s].event = "location_update"
  /\ sock'[s].tripId = t
  /\ sock'[s].result = "Location updated"

\* C23: the location_updated event of a location_update goes to the other
\* members of the trip room and never to the sender.
C23_LocationNotEchoed ==
  [][\A s \in Sockets, t \in TripIds :
       SendsLocation(s, t) =>
         /\ Len(sock'[s].emitted) = 1
         /\ sock'[s].emitted[1].name = "location_updated"
         /\ sock'[s].emitted[1].tripId = t
         /\ sock'[s].emitted[1].to = rooms[t] \ {s}
         /\ s \notin sock'[s].emitted[1].to]_vars

\* A member of the trip room has sent its location and the others were told.
C23_Witness ==
  \E s \in Sockets, t \in TripIds :
    /\ sock[s].pc = "done"
    /\ sock[s].event = "location_update"
    /\ sock[s].result = "Location updated"
    /\ s \in rooms[t]
    /\ sock[s].emitted[1].to = rooms[t] \ {s}
    /\ sock[s].emitted[1].to # {}

\* Connection s ends a get_location in this step.
AnswersLocation(s) ==
  /\ sock[s].event = "get_location"
  /\ sock[s].pc # "done"
  /\ sock'[s].pc = "done"

\* C25: a location_update stores the location under (role, trip) with a life
\* of LocationTTL seconds from that write; get_location gives it as the exact
\* answer exactly while the entry lives, so less than LocationTTL seconds
\* after the last write; once it is gone the answer is the fallback or "not
\* available"; a later location_update stores a fresh entry.
C25_ExactWhileFresh ==
  [][/\ \A s \in Sockets, t \in TripIds :
          SendsLocation(s, t) =>
            /\ cache'[userRole(s)][t].present
            /\ cache'[userRole(s)][t].userId = userId(s)
            /\ cache'[userRole(s)][t].age = 0
     /\ \A r \in CacheRoles, t \in TripIds :
          /\ cache'[r][t].present => cache'[r][t].age < LocationTTL
          /\ (cache[r][t].present /\ cache'[r][t].present
                /\ cache'[r][t].age > cache[r][t].age) =>
               /\ cache'[r][t].age = cache[r][t].age + TickSeconds
               /\ cache'[r][t].location = cache[r][t].location
          /\ (cache[r][t].present /\ ~cache'[r][t].present) =>
               cache[r][t].age + TickSeconds >= LocationTTL
     /\ \A s \in Sockets :
          /\ (sock[s].pc = "get_exact" /\ sock'[s] # sock[s]) =>
               LET entry == redisGet(sock[s].targetRole, sock[s].tripId) IN
               IF entry.present
               THEN /\ sock'[s].pc = "done"
                    /\ sock'[s].result = "success"
                    /\ sock'[s].location = entry
                    /\ sock'[s].location.age < LocationTTL
               ELSE sock'[s].pc = "get_keys"
          /\ (AnswersLocation(s) /\ sock[s].pc \in {"get_keys", "get_fallback"}) =>
               \/ sock'[s].result = "Location not available"
               \/ /\ sock'[s].result = "success"
                  /\ sock'[s].note = "Using fallback location"]_vars

\* The exact answer was given two ticks after the write.
C25_Witness ==
  \E s \in Sockets :
    /\ sock[s].pc = "done"
    /\ sock[s].event = "get_location"
    /\ sock[s].result = "success"
    /\ sock[s].note = NONE
    /\ sock[s].key = sock[s].targetRole
    /\ sock[s].location.age = 2 * TickSeconds

\* C26: get_location answers with the entry of another role only if it found
\* no entry under the requested role, and then with the fallback note; if it
\* finds the entry of the requested role, the answer is that entry, without
\* the note.
C26_FallbackOnlyWhenAbsent ==
  [][\A s \in Sockets :
       /\ (sock[s].pc = "get_exact" /\ sock'[s] # sock[s]) =>
            LET entry == redisGet(sock[s].targetRole, sock[s].tripId) IN
            IF entry.present
            THEN /\ sock'[s].pc = "done"
                 /\ sock'[s].key = sock[s].targetRole
                 /\ sock'[s].location = entry
                 /\ sock'[s].note = NONE
            ELSE sock'[s].pc # "done"
       /\ (AnswersLocation(s) /\ sock'[s].result = "success"
             /\ sock'[s].key # sock[s].targetRole) =>
            /\ sock[s].pc = "get_fallback"
            /\ sock'[s].note = "Using fallback location"
            /\ sock'[s].location = redisGet(sock'[s].key, sock[s].tripId)
       /\ (AnswersLocation(s) /\ sock[s].pc = "get_fallback"
             /\ sock'[s].result = "success") =>
            sock'[s].note = "Using fallback location"]_vars

\* The ambulance's location was asked for and the user's was given, as a
\* fallback.
C26_Witness ==
  \E s \in Sockets :
    /\ sock[s].pc = "done"
    /\ sock[s].event = "get_location"
    /\ sock[s].targetRole = "ambulance"
    /\ sock[s].key = "user"
    /\ sock[s].location.present
    /\ sock[s].note = "Using fallback location"

\* C30: the position the index holds for an ambulance is the ambulance's
\* location in the durable store.
C30_IndexIsProjection ==
  \A a \in Members(geo) : Position(geo, a) = ambLoc[a]

\* Request p ends in this step.
Ends(p) == req[p].pc # "done" /\ req'[p].pc = "done"

\* C27: when the index write of an ambulance status update, location update or
\* login fails after the durable write, or the registration of a connection
\* fails, the durable write stays, the request is answered as a success and
\* the connection is open.
C27_CacheFailureTolerated ==
  [][/\ \A p \in Procs :
          (Ends(p) /\ ~req'[p].redisUp) =>
            /\ req'[p].op = "updateAmbulanceStatus" =>
                 /\ req'[p].result = "200"
                 /\ ambStatus'[req'[p].amb] = req'[p].status
                 /\ geo' = geo
            /\ req'[p].op = "loginAmbulance" =>
                 /\ req'[p].result = "200"
                 /\ geo' = geo
                 /\ ambStatus' = ambStatus
            /\ (req'[p].op = "updateAmbulanceLocation" /\ ambLoc' # ambLoc) =>
                 /\ req'[p].result = "200"
                 /\ ambLoc'[req'[p].amb] = req'[p].location
                 /\ geo' = geo
     /\ \A s \in Sockets :
          (sock[s].pc = "idle" /\ sock'[s].event = "connection"
             /\ Resolves(sock'[s].token) /\ s \notin presence') =>
            /\ conn'[s]
            /\ sock'[s].result = "connected"]_vars

\* An ambulance went ready while Redis was down: the request succeeded, the
\* store says ready, the index does not hold the ambulance.
C27_Witness ==
  \E p \in Procs :
    /\ req[p].pc = "done"
    /\ req[p].op = "updateAmbulanceStatus"
    /\ ~req[p].redisUp
    /\ req[p].status = "ready"
    /\ req[p].result = "200"
    /\ ambStatus[req[p].amb] = "ready"
    /\ req[p].amb \notin Members(geo)

\* C28: an HTTP ambulance location update is answered with its normal result
\* and has written the location to the durable store, whether or not the
\* realtime hub can publish.
C28_PublishFailureTolerated ==
  [][\A p \in Procs :
       (Ends(p) /\ req'[p].op = "updateAmbulanceLocation") =>
         /\ req'[p].result = "200"
         /\ ambLoc'[req'[p].amb] = req'[p].location]_vars

\* C39: when Redis answers and a ready ambulance is indexed within 30 km,
\* findNearbyAmbulances returns a non-empty list, whatever else the index
\* holds; when a hospital passing the filters is indexed within 30 km,
\* findNearbyHospitals returns a non-empty list.
C39_ReadyInReachIsFound ==
  /\ (AmbulanceLookup /\ lookup.down = {}
        /\ \E a \in ReadyIndexed : Position(geo, a) <= 30)
       => lookup.found # <<>>
  /\ (lookup.fn = "findNearbyHospitals" /\ lookup.down = {}
        /\ \E h \in Members(hospitalGeo) :
             /\ Position(hospitalGeo, h) <= 30
             /\ MatchesQuery(hospitals[h], lookup.bloodType, lookup.requireBeds))
       => lookup.found # <<>>

\* The trips of `docs` ambulance a is assigned to and that are under way.
assignedTrips(docs, a) ==
  {t \in DOMAIN docs : /\ docs[t].exists
                       /\ docs[t].ambulanceId = a
                       /\ docs[t].status \in ActiveStatuses \ {"SEARCHING"}}

\* C34: when assignAmbulanceToTrip fails after it has set its ambulance
\* on-trip (the transition is rejected, or the trip is gone), the ambulance is
\* not left on-trip without being the assigned ambulance of a trip under way.
C34_FailedAssignLeavesAmbulance ==
  [][\A p \in Procs :
       (Finishes(p) /\ req[p].pc = "assign_uts") =>
         (ambStatus'[req[p].amb] = "on-trip" =>
            assignedTrips(trips', req[p].amb) # {})]_vars

\* The answers that refuse a request.
Refusals == {"400", "401", "403", "404", "400 Invalid status transition",
             "400 already terminal"}

Refused(r) == r.pc = "done" /\ r.result \in Refusals

\* C35: a request by an ambulance to move a trip to ARRIVED_PICKUP,
\* EN_ROUTE_HOSPITAL, ARRIVED_HOSPITAL or COMPLETED that comes from an
\* ambulance other than the trip's assigned one is refused, on the status
\* route and on the four dedicated routes alike.
C35_OnlyAssignedAmbulanceMoves ==
  [][\A p \in Procs, t \in TripIds, a \in Ambulances :
       (trips[t].exists /\ trips[t].ambulanceId # a) =>
         /\ \A status \in {"ARRIVED_PICKUP", "EN_ROUTE_HOSPITAL",
                           "ARRIVED_HOSPITAL", "COMPLETED"} :
              updateTripStatusByAmbulance(p, t, a, status) => Refused(req'[p])
         /\ (\/ arrivedAtPickup(p, t, a)
             \/ enRouteToHospital(p, t, a)
             \/ arrivedAtHospital(p, t, a)
             \/ completeTrip(p, t, a)) => Refused(req'[p])]_vars

\* C36: a cancel request from a user who is not the trip's requester, or from
\* an ambulance that is not the trip's assigned one, is refused, on both
\* cancel routes.
C36_OnlyPartiesCancel ==
  [][\A p \in Procs, t \in TripIds :
       trips[t].exists =>
         /\ \A caller \in (Users \ {Requester})
                            \cup (Ambulances \ {trips[t].ambulanceId}) :
              cancelTripRequest(p, t, caller) => Refused(req'[p])
         /\ \A caller \in Ambulances \ {trips[t].ambulanceId} :
              cancelTrip(p, t, caller) => Refused(req'[p])]_vars

\* Connection s starts a handler of `event` in this step.
Handles(s, event) == sock[s].pc = "idle" /\ sock'[s].event = event

\* C40: an emergency_sos event is delivered to the trip room or to the admin
\* room only when its sender is the trip's requester, its assigned ambulance
\* or an admin; sent by any other connection it is refused and delivers
\* nothing.
C40_SosOnlyFromParticipants ==
  [][\A s \in Sockets, t \in TripIds :
       (Handles(s, "emergency_sos") /\ sock'[s].tripId = t
          /\ ~(\/ userRole(s) = "admin"
               \/ userRole(s) = "user" /\ ReadTrip(t).userId = userId(s)
               \/ userRole(s) = "ambulance"
                    /\ ReadTrip(t).ambulanceId = userId(s))) =>
         /\ sock'[s].result # "SOS sent"
         /\ sock'[s].emitted = <<>>]_vars

\* C38: get_trip_participants reports exactly the connections in the trip's
\* room: the count equals the number of participants listed, the participants
\* listed are the members of the room, and no connection that has
\* disconnected or left is among the ids counted.
C38_ParticipantsAreRoomMembers ==
  [][\A s \in Sockets :
       (SocketAt(s, "participants_hGet") /\ sock'[s].pc = "done") =>
         /\ sock'[s].count = Cardinality(sock'[s].participants)
         /\ sock'[s].participants = rooms[sock'[s].tripId]
         /\ \A x \in sock'[s].socketIds : conn[x]]_vars

\* C37: every open connection's identity has a reverse entry
\* socket:{role}:{id}, and the entry names an open connection of that
\* identity (Redis answers, no entry is an hour old).
C37_ReverseNamesLiveConnection ==
  \A s \in Sockets :
    conn[s] =>
      /\ reverse[userId(s)] # NONE
      /\ conn[reverse[userId(s)]]
      /\ userId(reverse[userId(s)]) = userId(s)

\* C31: once a connection is closed, socket:mapping eventually holds no entry
\* for its connection id (Redis answers every command).
C31_ClosedConnectionLeavesRegistry ==
  \A s \in Devices : (~conn[s]) ~> (s \notin presence)

\* C32: no ambulance is the assigned ambulance of two trips that are both
\* under way (ACCEPTED, ARRIVED_PICKUP, EN_ROUTE_HOSPITAL, ARRIVED_HOSPITAL).
C32_OneTripPerAmbulance ==
  \A a \in Ambulances : Cardinality(assignedTrips(trips, a)) <= 1

\* C33: createTripRequest creates a trip only for a user who has no trip in
\* SEARCHING, ACCEPTED, ARRIVED_PICKUP, EN_ROUTE_HOSPITAL or ARRIVED_HOSPITAL
\* at that moment, also when requests run at the same time.
C33_OneActiveTripPerUser ==
  [][\A p \in Procs :
       (Finishes(p) /\ req'[p].op = "createTripRequest"
          /\ req'[p].result = "201") =>
         existingTrip = {}]_vars

====
